---- MODULE Spec2Model ----
(***************************************************************************)
(* CANDELA guardian: the rule engine (directive_validation.py), the        *)
(* execution runtime with its cache, modes and background recheck          *)
(* (guardian_runtime.py), the output-log anchoring pass                    *)
(* (anchor_outputs.py) and the proof script (verify_output.py), as one     *)
(* state machine.                                                          *)
(*                                                                         *)
(* Threads are modelled at the granularity of their accesses to shared     *)
(* state (cache dict, log files, executor queue, state file, ledger).      *)
(* Hashes are symbolic and injective: sha256(x) is the string "h(x)".      *)
(* Log lines carry no timestamp: two entries of the same text and verdict  *)
(* are equal lines.                                                        *)
(*                                                                         *)
(* Spec       the runtime: one calling thread, its background rechecks,    *)
(*            the clock; the executor's worker and the anchoring script    *)
(*            take no step.                                                *)
(* SpecAnchor the anchoring script and the chain beside a sync_light       *)
(*            runtime that keeps appending entries and corrections.        *)
(* SpecWarm   the runtime in regex_only mode with the executor's worker.   *)
(* SpecRules  the runtime while the ruleset file and the mode change.      *)
(* SpecVerify verify_output beside log appends and successful passes.      *)
(* SpecMerkle the Merkle root and proof functions on all small trees.      *)
(***************************************************************************)
EXTENDS Integers, Sequences, FiniteSets, TLC

(* ------------------------------ bounds -------------------------------- *)
\* number of guardian_chat invocations (they may overlap in time)
MaxCalls == 2
\* wall clock range (time.time() in cache-TTL units)
MaxTime == 1
\* number of transactions the anchoring script may send
MaxTx == 2
\* number of times the ruleset file is rewritten or swapped
MaxEdits == 1
\* number of leaves of a Merkle tree given to the proof functions
MaxLeaves == 6
\* number of directives of a ruleset handed to validate_output directly
MaxDirectives == 2
\* number of background rechecks that write to the output log next to the
\* calling thread
MaxRechecks == 2
\* number of strings of a ruleset document given to the hash functions
MaxStrings == 2
\* length of the longest digit string given to _luhn_ok
MaxDigits == 19

(* ------------------------- configuration ------------------------------ *)
\* cache_ttl_s, in clock ticks
CACHE_TTL == 1
\* latency_budget_ms
BUDGET_MS == 120
\* detectors.mini_semantic.threshold, in hundredths
THRESHOLD == 80
\* default threshold of a semantic_forbid check, in hundredths
DefaultCheckThreshold == 78

Modes == {"strict", "sync_light", "regex_only"}

\* measured fast-path latencies (ms): one under, one over the budget
DtSamples == {100, 150}

(* ------------------------------ texts --------------------------------- *)
\* A text is a sequence of whitespace-separated words.  A regex is modelled
\* by the word it recognises: re.search(rx, text) holds iff the word occurs.
T_clean == <<"hello", "conf">>
T_key == <<"0xkey", "conf">>
T_warn == <<"mail", "me", "now">>
T_harm == <<"harm", "conf">>

Texts == {T_clean, T_key, T_warn, T_harm}

\* texts with a digit run: a Luhn-valid 16-digit number, a Luhn-invalid one,
\* a 9-digit number
T_card == <<"4111111111111111", "conf">>
T_badcard == <<"4111111111111121", "conf">>
T_short == <<"123456789", "conf">>
\* a text with thirteen repetitions of the two characters backslash, d
T_literal == <<"\\d*13", "conf">>

ValidateTexts == Texts \cup {T_card, T_badcard, T_short, T_literal}

Range(s) == {s[i] : i \in DOMAIN s}

re_search(rx, text) == rx \in Range(text)

_word_count(text) == Len(text)

\* _CARD_CANDIDATE_RE is written r"(?:\\d[ -]?){13,19}": in a raw string the
\* doubled backslash is a literal backslash followed by the letter d, so a
\* candidate is a run of 13..19 copies of the two characters "\d"; the digits
\* left after stripping non-digits from such a candidate are the empty string.
CardCandidates(text) == {w \in Range(text) : w = "\\d*13"}

DigitsOf(candidate) == <<>>

\* the checksum of directive_validation._luhn_ok on a digit sequence
RECURSIVE LuhnSum(_, _, _)
LuhnSum(digits, i, parity) ==
    IF i > Len(digits) THEN 0
    ELSE LET n == digits[i]
             m == IF (i - 1) % 2 = parity
                  THEN (IF 2 * n > 9 THEN 2 * n - 9 ELSE 2 * n)
                  ELSE n
         IN m + LuhnSum(digits, i + 1, parity)

\* variant: the digits at even offsets are doubled whatever the length
_luhn_ok_FixedParity(digits) == LuhnSum(digits, 1, 0) % 10 = 0

_luhn_ok(digits) == LuhnSum(digits, 1, Len(digits) % 2) % 10 = 0

_find_luhn_cards(text) ==
    {c \in CardCandidates(text) :
        /\ 13 <= Len(DigitsOf(c))
        /\ Len(DigitsOf(c)) <= 19
        /\ _luhn_ok(DigitsOf(c))}

(* ------------------------------ state --------------------------------- *)
VARIABLES
    MODE,            \* CFG mode
    SEM_ENABLED,     \* CFG detectors.mini_semantic.enabled
    now,             \* time.time()
    cache,           \* _cache: key -> (expires_at, verdict)
    log,             \* logs/output_log.jsonl, one entry per line
    logBy,           \* history: who appended each line, <<call, "chat"|"bg">>
    lat,             \* logs/latency_log.jsonl
    latBy,           \* history: which call appended each latency record
    calls,           \* guardian_chat invocations: locals and position
    bg,              \* _bg_heavy_check threads, one per dispatching call
    execQueue,       \* _EXECUTOR: pending _warm_semantic tasks
    PRELOAD_DONE,    \* _PRELOAD_DONE
    semCalls,        \* history: matcher invocations <<call, kind, text>>
    anchored_lines,  \* logs/output_anchor_state.json
    ledger,          \* docs/ANCHORS.md output batch records, in file order
    ledgerMarker,    \* whether ANCHORS.md holds the "## Output batch anchors" marker
    sinkPending,     \* transactions sent to the chain, not yet mined
    sinkAccepted,    \* transactions mined by the chain
    anchor,          \* anchor_outputs.main: locals and position
    txCount,         \* transactions sent so far
    rulesetFile,     \* the ruleset file at the path in force: content, mtime
    _RULESET_CACHE,  \* directive_validation._RULESET_CACHE
    _RULESET_MTIME,  \* directive_validation._RULESET_MTIME
    cacheBy,         \* history: what each stored verdict was computed from
    verify,          \* verify_output: inputs, position and results
    vo,              \* direct calls of the pure functions: inputs and results
    gx,              \* guardian_extended: compiled patterns, a guardian call
    wr               \* the output log file as the writes of its writers left it

(* ----------------------------- ruleset -------------------------------- *)
Chk(kind, patterns, phrases, n) ==
    [kind |-> kind, patterns |-> patterns, phrases |-> phrases, n |-> n]

Directive(id, title, tier, has_checks, checks) ==
    [id |-> id, title |-> title, tier |-> tier,
     has_checks |-> has_checks, checks |-> checks]

\* The ruleset file as it is when the runtime is imported: one directive per
\* check kind and tier.
RULESET ==
    [name |-> "E1.0",
     directives |-> <<
        Directive(1, "Credentials", "BLOCK", TRUE,
                  <<Chk("regex_forbid", <<"0xkey", "pem">>, <<>>, 0)>>),
        Directive(2, "PaymentCards", "BLOCK", TRUE,
                  <<Chk("luhn_card_forbid", <<>>, <<>>, 0)>>),
        Directive(5, "HarmfulIntent", "BLOCK", TRUE,
                  <<Chk("semantic_forbid", <<>>, <<"harm">>, 0)>>),
        Directive(10, "Email", "WARN", TRUE,
                  <<Chk("regex_forbid", <<"mail">>, <<>>, 0)>>),
        Directive(11, "Confidence", "WARN", TRUE,
                  <<Chk("regex_require", <<"conf">>, <<>>, 0),
                    Chk("max_words", <<>>, <<>>, 2)>>),
        Directive(12, "Narrative", "BLOCK", FALSE, <<>>)
     >>]

\* The file after an edit (or the file a changed path override points to):
\* Credentials no longer forbids the word "0xkey".
RULESET_B ==
    [name |-> "E1.1",
     directives |-> [RULESET.directives EXCEPT ![1] =
        Directive(1, "Credentials", "BLOCK", TRUE,
                  <<Chk("regex_forbid", <<"pem">>, <<>>, 0)>>)]]

Rulesets == {RULESET, RULESET_B}

\* _RULESET_CACHE = None
NoRuleset == [name |-> "none", directives |-> <<>>]

\* load_ruleset(): the cached ruleset while the file's mtime is the cached
\* one, else the file's content
load_ruleset ==
    IF _RULESET_CACHE # NoRuleset /\ _RULESET_MTIME = rulesetFile.mtime
    THEN _RULESET_CACHE
    ELSE rulesetFile.content

\* the assignments of load_ruleset to its module globals
LoadsRuleset ==
    /\ _RULESET_CACHE' = load_ruleset
    /\ _RULESET_MTIME' = rulesetFile.mtime

\* canonical_ruleset_sha256: rulesets of the model differ in their name, so
\* the symbolic digest of the name is injective on them.
canonical_ruleset_sha256(rs) == "h(" \o rs.name \o ")"

_sha(text) == "h(" \o ToString(text) \o ")"

(* --------------------------- rule engine ------------------------------ *)
Finding(did, title, level, message) ==
    [directive_id |-> did, title |-> title, level |-> level, message |-> message]

\* mini_semantic.semantic_match: the similarity of a text to the closest
\* phrase is high exactly when the text contains the phrase's word.
MaxSim(text, phrases) ==
    IF \E i \in DOMAIN phrases : phrases[i] \in Range(text) THEN 90 ELSE 10

semantic_match(text, phrases, threshold) ==
    IF phrases = <<>> THEN FALSE ELSE MaxSim(text, phrases) >= threshold

\* variant: the tier is ignored, every finding of a check is a violation
CheckFindings_TierBlind(d, chk, text, include_semantic) ==
    LET level == "violation"
    IN  CASE chk.kind = "regex_forbid" ->
               LET hits == SelectSeq(chk.patterns, LAMBDA p : re_search(p, text))
               IN  [i \in 1..Len(hits) |->
                      Finding(d.id, d.title, level,
                              "Matched forbidden pattern: " \o hits[i] \o ".")]
          [] chk.kind = "regex_require" ->
               IF ~re_search(chk.patterns[1], text)
               THEN <<Finding(d.id, d.title, level, "Missing required pattern.")>>
               ELSE <<>>
          [] chk.kind = "luhn_card_forbid" ->
               IF _find_luhn_cards(text) # {}
               THEN <<Finding(d.id, d.title, level,
                              "Detected a likely payment card number (Luhn-positive).")>>
               ELSE <<>>
          [] chk.kind = "semantic_forbid" ->
               IF include_semantic /\ chk.phrases # <<>>
                  /\ semantic_match(text, chk.phrases, DefaultCheckThreshold)
               THEN <<Finding(d.id, d.title, level,
                              "Semantic similarity matched a prohibited intent.")>>
               ELSE <<>>
          [] chk.kind = "max_words" ->
               IF chk.n > 0 /\ _word_count(text) > chk.n
               THEN <<Finding(d.id, d.title, level, "Output exceeds n words.")>>
               ELSE <<>>
          [] OTHER ->
               <<Finding(d.id, d.title, "advisory", "Unknown check kind.")>>

\* findings of one check of directive d (validate_output, inner loop body)
CheckFindings(d, chk, text, include_semantic) ==
    LET level == IF d.tier = "BLOCK" THEN "violation" ELSE "advisory"
    IN  CASE chk.kind = "regex_forbid" ->
               LET hits == SelectSeq(chk.patterns, LAMBDA p : re_search(p, text))
               IN  [i \in 1..Len(hits) |->
                      Finding(d.id, d.title, level,
                              "Matched forbidden pattern: " \o hits[i] \o ".")]
          [] chk.kind = "regex_require" ->
               IF ~re_search(chk.patterns[1], text)
               THEN <<Finding(d.id, d.title, level, "Missing required pattern.")>>
               ELSE <<>>
          [] chk.kind = "luhn_card_forbid" ->
               IF _find_luhn_cards(text) # {}
               THEN <<Finding(d.id, d.title, level,
                              "Detected a likely payment card number (Luhn-positive).")>>
               ELSE <<>>
          [] chk.kind = "semantic_forbid" ->
               IF include_semantic /\ chk.phrases # <<>>
                  /\ semantic_match(text, chk.phrases, DefaultCheckThreshold)
               THEN <<Finding(d.id, d.title, level,
                              "Semantic similarity matched a prohibited intent.")>>
               ELSE <<>>
          [] chk.kind = "max_words" ->
               IF chk.n > 0 /\ _word_count(text) > chk.n
               THEN <<Finding(d.id, d.title, level, "Output exceeds n words.")>>
               ELSE <<>>
          [] OTHER ->
               <<Finding(d.id, d.title, "advisory", "Unknown check kind.")>>

RECURSIVE ChecksFindings(_, _, _, _, _)
ChecksFindings(d, checks, i, text, include_semantic) ==
    IF i > Len(checks) THEN <<>>
    ELSE CheckFindings(d, checks[i], text, include_semantic)
         \o ChecksFindings(d, checks, i + 1, text, include_semantic)

\* variant: a directive without checks gets a finding at the level of its tier
DirectiveFindings_MissingByTier(d, text, include_semantic) ==
    IF ~d.has_checks
    THEN <<Finding(d.id, d.title,
                   IF d.tier = "BLOCK" THEN "violation" ELSE "advisory",
                   "Directive has no machine-checkable checks.")>>
    ELSE ChecksFindings(d, d.checks, 1, text, include_semantic)

DirectiveFindings(d, text, include_semantic) ==
    IF ~d.has_checks
    THEN <<Finding(d.id, d.title, "advisory",
                   "Directive has no machine-checkable checks.")>>
    ELSE ChecksFindings(d, d.checks, 1, text, include_semantic)

RECURSIVE DirectivesFindings(_, _, _, _)
DirectivesFindings(ds, i, text, include_semantic) ==
    IF i > Len(ds) THEN <<>>
    ELSE DirectiveFindings(ds[i], text, include_semantic)
         \o DirectivesFindings(ds, i + 1, text, include_semantic)

\* variant: the semantic checks are skipped whatever the caller asks for
validate_output_FastOnly(text, include_semantic) ==
    DirectivesFindings(load_ruleset.directives, 1, text, FALSE)

\* validate_output(text, include_semantic=..., semantic_matcher=...) when the
\* matcher does not raise
validate_output(text, include_semantic) ==
    DirectivesFindings(load_ruleset.directives, 1, text, include_semantic)

\* whether validate_output calls the matcher at all: some semantic_forbid
\* check with phrases is reached with include_semantic
InvokesMatcher(include_semantic) ==
    /\ include_semantic
    /\ \E i \in DOMAIN load_ruleset.directives :
          LET d == load_ruleset.directives[i]
          IN  /\ d.has_checks
              /\ \E j \in DOMAIN d.checks :
                    /\ d.checks[j].kind = "semantic_forbid"
                    /\ d.checks[j].phrases # <<>>

\* the semantic_forbid checks the loops of validate_output reach, as
\* <<directive index, check index>>
SemanticChecks(ds) ==
    {x \in (DOMAIN ds) \X (1..3) :
        /\ ds[x[1]].has_checks
        /\ x[2] \in DOMAIN ds[x[1]].checks
        /\ ds[x[1]].checks[x[2]].kind = "semantic_forbid"}

\* variant: the semantic checks are evaluated whatever include_semantic says
ValidateResult_SemanticAlways(rs, text, include_semantic, matcher) ==
    LET ds == rs.directives
        raised == matcher = "none" /\ SemanticChecks(ds) # {}
    IN  [raised |-> raised,
         findings |-> IF raised THEN <<>>
                      ELSE DirectivesFindings(ds, 1, text, TRUE),
         matcher_calls |->
            IF ~raised
            THEN Cardinality({x \in SemanticChecks(ds) :
                                ds[x[1]].checks[x[2]].phrases # <<>>})
            ELSE 0]

\* validate_output(text, ruleset=rs, include_semantic=..., semantic_matcher=
\* matcher): raises ValueError at the first semantic_forbid check it reaches
\* with include_semantic and no matcher, else returns the findings
ValidateResult(rs, text, include_semantic, matcher) ==
    LET ds == rs.directives
        raised == include_semantic /\ matcher = "none" /\ SemanticChecks(ds) # {}
    IN  [raised |-> raised,
         findings |-> IF raised THEN <<>>
                      ELSE DirectivesFindings(ds, 1, text, include_semantic),
         matcher_calls |->
            IF include_semantic /\ ~raised
            THEN Cardinality({x \in SemanticChecks(ds) :
                                ds[x[1]].checks[x[2]].phrases # <<>>})
            ELSE 0]

\* directives a ruleset may be made of: the ones of RULESET, one whose checks
\* are an empty list, one with a check of an unknown kind, a WARN one
\* without checks, a WARN one with a semantic check
DirectivePool ==
    Range(RULESET.directives) \cup
    {Directive(13, "Empty", "BLOCK", TRUE, <<>>),
     Directive(14, "Sentiment", "BLOCK", TRUE,
               <<Chk("sentiment", <<>>, <<>>, 0)>>),
     Directive(15, "Style", "WARN", FALSE, <<>>),
     Directive(16, "Tone", "WARN", TRUE,
               <<Chk("semantic_forbid", <<>>, <<"harm">>, 0)>>)}

ValidateRulesets ==
    {[name |-> "direct", directives |-> ds] :
        ds \in UNION {[1..n -> DirectivePool] : n \in 0..MaxDirectives}}

(* -------------------------- canonical hash ---------------------------- *)
\* the strings of a ruleset document: one of ASCII characters only, one with
\* the character U+00E9
NonAscii == "caf<U+00E9>"

DocStrings == {"cafe", NonAscii}

\* json.dumps of a string: with ensure_ascii every non-ASCII character is
\* written as an escape sequence
json_string(str, ensure_ascii) ==
    IF ensure_ascii /\ str = NonAscii THEN "\"caf\\u00e9\"" 
    ELSE "\"" \o str \o "\""

\* json.dumps(obj, sort_keys=True, ensure_ascii=...) of a list of strings
RECURSIVE json_items(_, _, _)
json_items(doc, i, ensure_ascii) ==
    IF i > Len(doc) THEN ""
    ELSE (IF i > 1 THEN ", " ELSE "") \o json_string(doc[i], ensure_ascii)
         \o json_items(doc, i + 1, ensure_ascii)

json_dumps(doc, ensure_ascii) == "[" \o json_items(doc, 1, ensure_ascii) \o "]"

\* the hash each place computes of the parsed document
CanonicalHashAt(place, doc) ==
    CASE place = "runtime" -> "h(" \o json_dumps(doc, FALSE) \o ")"
      [] place = "anchor_hash" -> "h(" \o json_dumps(doc, FALSE) \o ")"
      [] place = "prototype" -> "h(" \o json_dumps(doc, FALSE) \o ")"
      [] place = "cli" -> "h(" \o json_dumps(doc, FALSE) \o ")"
      [] place = "legacy_prototype" -> "h(" \o json_dumps(doc, TRUE) \o ")"

(* ------------------------------ Merkle -------------------------------- *)
sha256(x) == "h(" \o x \o ")"

_leaf_hash(line) == sha256(ToString(line))

\* one level of anchor_outputs._merkle_root: pair up, duplicating the last
RECURSIVE NextLevel(_, _)
NextLevel(level, i) ==
    IF i > Len(level) THEN <<>>
    ELSE LET a == level[i]
             b == IF i + 1 <= Len(level) THEN level[i + 1] ELSE a
         IN  <<sha256(a \o b)>> \o NextLevel(level, i + 2)

RECURSIVE _merkle_root(_)
_merkle_root(hashes) ==
    IF hashes = <<>> THEN ""
    ELSE IF Len(hashes) = 1 THEN hashes[1]
    ELSE _merkle_root(NextLevel(hashes, 1))

\* a level built without duplicating: an unpaired last node moves up as it is
RECURSIVE NextLevelPromote(_, _)
NextLevelPromote(level, i) ==
    IF i > Len(level) THEN <<>>
    ELSE IF i = Len(level) THEN <<level[i]>>
    ELSE <<sha256(level[i] \o level[i + 1])>> \o NextLevelPromote(level, i + 2)

RECURSIVE merkle_PromoteLast(_)
RECURSIVE merkle(_)
\* variant: the unpaired last node of an odd level is not duplicated
merkle_PromoteLast(hashes) ==
    IF Len(hashes) = 1 THEN hashes[1]
    ELSE merkle_PromoteLast(NextLevelPromote(hashes, 1))

\* run_guardian.compute_merkle_root_for_lines: the inner function merkle
merkle(hashes) ==
    IF Len(hashes) = 1 THEN hashes[1]
    ELSE merkle(NextLevel(hashes, 1))

\* run_guardian.compute_merkle_root_for_lines on the leaf hashes: None for
\* no lines
compute_merkle_root_for_lines(hashes) ==
    IF hashes = <<>> THEN "None" ELSE merkle(hashes)

\* verify_output.leaf_hash
leaf_hash(line) == sha256(ToString(line))

\* merkle_root_and_proof, lines 39-45: the next level of the tree
RECURSIVE nxt(_, _)
nxt(level, i) ==
    IF i >= Len(level) THEN <<>>
    ELSE LET a == level[i + 1]
             b == IF i + 1 < Len(level) THEN level[i + 2] ELSE a
         IN  <<sha256(a \o b)>> \o nxt(level, i + 2)

\* variant: an unpaired last node takes its left neighbour as sibling
Sibling_LeftNeighbour(level, idx) ==
    IF idx % 2 = 0
    THEN IF idx + 1 < Len(level) THEN level[idx + 2] ELSE level[idx]
    ELSE level[idx]

\* merkle_root_and_proof, lines 33-37: the sibling of node idx (0-based);
\* an unpaired last node is its own sibling
Sibling(level, idx) ==
    IF idx % 2 = 0
    THEN LET pair_idx == IF idx + 1 < Len(level) THEN idx + 1 ELSE idx
         IN  level[pair_idx + 1]
    ELSE level[idx]

\* merkle_root_and_proof, the while loop
RECURSIVE MerkleWalk(_, _, _)
MerkleWalk(level, idx, proof) ==
    IF Len(level) <= 1
    THEN [raised |-> FALSE, root |-> level[1], proof |-> proof]
    ELSE MerkleWalk(nxt(level, 0), idx \div 2,
                    Append(proof, Sibling(level, idx)))

\* merkle_root_and_proof(leaves, index): raises ValueError on no leaves
merkle_root_and_proof(leaves, index) ==
    IF leaves = <<>>
    THEN [raised |-> TRUE, root |-> "", proof |-> <<>>]
    ELSE MerkleWalk(leaves, index, <<>>)

\* the recomputation of the root from a leaf and its proof
RECURSIVE _verify_proof(_, _, _, _)
_verify_proof(h, proof, idx, k) ==
    IF k > Len(proof) THEN h
    ELSE _verify_proof(IF idx % 2 = 0 THEN sha256(h \o proof[k])
                                      ELSE sha256(proof[k] \o h),
                       proof, idx \div 2, k + 1)

(* --------------------------- state tuples ----------------------------- *)
runtimeVars == <<MODE, SEM_ENABLED, cache, lat, latBy, calls, bg, execQueue,
                 PRELOAD_DONE, semCalls>>
logVars == <<log, logBy>>
anchorVars == <<anchored_lines, ledger, ledgerMarker, sinkPending, sinkAccepted,
                anchor, txCount>>
rulesVars == <<rulesetFile, _RULESET_CACHE, _RULESET_MTIME>>
vars == <<runtimeVars, logVars, anchorVars, now, rulesVars, cacheBy, verify, vo, gx, wr>>

CallIds == 1..MaxCalls

NoVerdict == [passed |-> TRUE, violations |-> <<>>, notes |-> <<>>, score |-> -1]

IdleCall == [pc |-> "idle", text |-> <<>>, hit |-> FALSE, res |-> NoVerdict,
             ret |-> NoVerdict, dt_fast |-> 0, sem |-> FALSE,
             fast_findings |-> <<>>, findings |-> <<>>, rs |-> ""]

NoBg == [pc |-> "none", res |-> NoVerdict, findings |-> <<>>, rs |-> ""]

IdleVerify == [pc |-> "idle", leaves |-> <<>>, index |-> 0, raised |-> FALSE,
               root |-> "", proof |-> <<>>, recomputed |-> "",
               anchor_root |-> "", cli_root |-> ""]

\* the places that compute the canonical hash of the ruleset document
HashPlaces == {"runtime", "anchor_hash", "prototype", "legacy_prototype", "cli"}

IdleVo == [pc |-> "idle", rs |-> NoRuleset, text |-> <<>>,
           include_semantic |-> FALSE, matcher |-> "none", raised |-> FALSE,
           findings |-> <<>>, matcher_calls |-> 0, again |-> <<>>,
           doc |-> <<>>, hashes |-> [p \in HashPlaces |-> ""],
           digits |-> <<>>, luhn |-> "none"]

\* a ruleset file that cannot be read or parsed
Unreadable == [name |-> "unreadable", directives |-> <<>>]

IdleGx == [pc |-> "idle", file |-> NoRuleset, patterns |-> <<>>,
           fallback |-> FALSE, text |-> <<>>, ok |-> TRUE, info |-> "",
           delegated |-> FALSE, verdict |-> NoVerdict,
           loaded |-> "pending", runtime |-> "pending"]

\* the threads that call _log_output: the calling thread and the rechecks
Writers == {0} \cup (1..MaxRechecks)

IdleWr == [file |-> <<>>, pc |-> [w \in Writers |-> "idle"]]

IdleAnchor == [pc |-> "idle", start |-> 0, n |-> 0, root |-> "", tx |-> 0,
               outcome |-> "none", read_len |-> 0,
               pre_anchored |-> 0, pre_ledger |-> <<>>]

\* the state once the modules are imported, the verify script aside
ImportState ==
    /\ MODE \in Modes
    /\ SEM_ENABLED \in BOOLEAN
    /\ now = 0
    /\ cache = <<>>
    /\ log = <<>>
    /\ logBy = <<>>
    /\ lat = <<>>
    /\ latBy = <<>>
    /\ calls = [c \in CallIds |-> IdleCall]
    /\ bg = [c \in CallIds |-> NoBg]
    /\ execQueue = 0
    /\ PRELOAD_DONE = FALSE
    /\ semCalls = {}
    /\ anchored_lines = 0
    /\ ledger = <<>>
    /\ ledgerMarker \in BOOLEAN
    /\ sinkPending = {}
    /\ sinkAccepted = {}
    /\ anchor = IdleAnchor
    /\ txCount = 0
    /\ rulesetFile = [content |-> RULESET, mtime |-> 0]
    /\ _RULESET_CACHE = NoRuleset
    /\ _RULESET_MTIME = -1
    /\ cacheBy = <<>>

Init == ImportState /\ verify = IdleVerify /\ vo = IdleVo /\ gx = IdleGx
        /\ wr = IdleWr

(* ----------------------------- runtime -------------------------------- *)
DIRECTIVES_HASH == canonical_ruleset_sha256(RULESET)

_key(text) ==
    [text_sha |-> _sha(text), ruleset |-> DIRECTIVES_HASH, mode |-> MODE,
     sem |-> SEM_ENABLED, threshold |-> THRESHOLD]

\* variant: an entry is still served at the instant it expires
CacheHit_Inclusive(k) == k \in DOMAIN cache /\ cache[k].expires_at >= now

\* _get: the stored verdict while the entry has not expired
CacheHit(k) == k \in DOMAIN cache /\ cache[k].expires_at > now

\* variant: a hit is answered with a fresh passing verdict
_get_Fresh(k) ==
    [passed |-> TRUE, violations |-> <<>>, notes |-> <<>>, score |-> 100]

_get(k) == cache[k].res

\* _set
CacheSet(k, res) ==
    [x \in DOMAIN cache \cup {k} |->
        IF x = k THEN [expires_at |-> now + CACHE_TTL, res |-> res] ELSE cache[x]]

\* what the verdict stored under key k was computed from
CacheBySet(k, text, rs) ==
    [x \in DOMAIN cacheBy \cup {k} |->
        IF x = k THEN [text |-> text, ruleset |-> rs, mode |-> MODE,
                       sem |-> SEM_ENABLED, threshold |-> THRESHOLD]
        ELSE cacheBy[x]]

LatEntry(dt_fast, dt_sem, cached) ==
    [mode |-> MODE, cached |-> cached,
     dt_fast_ms |-> dt_fast, dt_sem_ms |-> dt_sem]

LogEntry(text, res) ==
    [mode |-> MODE, semantic_enabled |-> SEM_ENABLED,
     directive_hash |-> DIRECTIVES_HASH, text_sha256 |-> _sha(text),
     verdict |-> res]

\* variant: the loop fails the verdict on every finding, advisory or not
RECURSIVE Merge_AnyFinding(_, _, _)
Merge_AnyFinding(res, findings, i) ==
    IF i > Len(findings) THEN res
    ELSE LET f == findings[i]
             note == f.title \o ": " \o f.message
             r == IF f.level = "violation"
                  THEN [res EXCEPT !.passed = FALSE,
                                   !.violations = Append(@, f.directive_id),
                                   !.notes = Append(@, note)]
                  ELSE [res EXCEPT !.passed = FALSE, !.notes = Append(@, note)]
         IN  Merge_AnyFinding(r, findings, i + 1)

\* the loop of guardian_chat over findings (lines 119-126 and 135-142):
\* res.setdefault("score", 0) leaves an existing score as it is
RECURSIVE Merge(_, _, _)
Merge(res, findings, i) ==
    IF i > Len(findings) THEN res
    ELSE LET f == findings[i]
             note == f.title \o ": " \o f.message
             r == IF f.level = "violation"
                  THEN [res EXCEPT !.passed = FALSE,
                                   !.violations = Append(@, f.directive_id),
                                   !.notes = Append(@, note)]
                  ELSE [res EXCEPT !.notes = Append(@, note)]
         IN  Merge(r, findings, i + 1)

FreshVerdict == [passed |-> TRUE, violations |-> <<>>, notes |-> <<>>, score |-> 100]

\* the verdict _bg_heavy_check builds when blocked (lines 159-163)
RECURSIVE BgMerge(_, _, _)
BgMerge(res, findings, i) ==
    IF i > Len(findings) THEN res
    ELSE LET f == findings[i]
             note == f.title \o ": " \o f.message
             r == IF f.level = "violation"
                  THEN [res EXCEPT !.violations = Append(@, f.directive_id),
                                   !.notes = Append(@, note)]
                  ELSE [res EXCEPT !.notes = Append(@, note)]
         IN  BgMerge(r, findings, i + 1)

HasViolation(findings) == \E i \in DOMAIN findings : findings[i].level = "violation"

\* guardian_chat, line 130: the blocking semantic pass is taken
StrictApplies(res) == MODE = "strict" /\ SEM_ENABLED /\ res.passed

\* variant: the recheck is dispatched without looking at the fast verdict
LightApplies_AnyVerdict(res) == MODE = "sync_light" /\ SEM_ENABLED

\* guardian_chat, line 143: the background recheck is dispatched
LightApplies(res) == MODE = "sync_light" /\ SEM_ENABLED /\ res.passed

(* guardian_chat, lines 107-146: queue the warmup and look the key up; on a
   hit write the latency record and return the stored verdict; on a miss run
   the fast path, then by mode the blocking semantic pass (which raises when
   the matcher does) or the dispatch of the background thread.  The caller
   is one thread: an invocation starts when the one before it has returned
   or raised; background threads of earlier invocations keep running. *)
ChatStart(c, text, dt, up) ==
    /\ calls[c].pc = "idle"
    /\ IF c = 1 THEN TRUE ELSE calls[c - 1].pc \in {"done", "raised"}
    /\ execQueue' = execQueue + 1
    /\ LET fast == validate_output(text, FALSE)
           res == Merge(FreshVerdict, fast, 1)
           hit == [calls[c] EXCEPT !.text = text]
           me == [hit EXCEPT !.rs = canonical_ruleset_sha256(load_ruleset)]
       IN  IF CacheHit(_key(text))
           THEN /\ calls' = [calls EXCEPT ![c] =
                               [hit EXCEPT !.pc = "done", !.hit = TRUE,
                                           !.ret = _get(_key(text))]]
                /\ lat' = Append(lat, LatEntry(0, -1, TRUE))
                /\ latBy' = Append(latBy, c)
                /\ UNCHANGED <<bg, semCalls, _RULESET_CACHE, _RULESET_MTIME>>
           ELSE /\ UNCHANGED <<lat, latBy>>
                /\ LoadsRuleset
                /\ IF StrictApplies(res)
                   THEN /\ semCalls' = IF InvokesMatcher(TRUE)
                                       THEN semCalls \cup {<<c, "strict", text>>}
                                       ELSE semCalls
                        /\ IF InvokesMatcher(TRUE) /\ ~up
                           THEN calls' = [calls EXCEPT ![c] =
                                   [me EXCEPT !.pc = "raised", !.dt_fast = dt,
                                              !.fast_findings = fast]]
                           ELSE LET sem == validate_output(text, TRUE)
                                IN  calls' = [calls EXCEPT ![c] =
                                       [me EXCEPT !.pc = "set", !.dt_fast = dt,
                                                  !.sem = TRUE,
                                                  !.fast_findings = fast,
                                                  !.findings = fast \o sem,
                                                  !.res = Merge(res, sem, 1)]]
                        /\ UNCHANGED bg
                   ELSE IF LightApplies(res)
                   THEN /\ bg' = [bg EXCEPT ![c] = [@ EXCEPT !.pc = "check"]]
                        /\ calls' = [calls EXCEPT ![c] =
                              [me EXCEPT !.pc = "set", !.dt_fast = dt,
                                         !.fast_findings = fast, !.findings = fast,
                                         !.res = IF dt > BUDGET_MS
                                                 THEN [res EXCEPT !.notes =
                                                        Append(@, "background_pending")]
                                                 ELSE res]]
                        /\ UNCHANGED semCalls
                   ELSE /\ calls' = [calls EXCEPT ![c] =
                              [me EXCEPT !.pc = "set", !.dt_fast = dt,
                                         !.fast_findings = fast, !.findings = fast,
                                         !.res = res]]
                        /\ UNCHANGED <<bg, semCalls>>
    /\ UNCHANGED <<MODE, SEM_ENABLED, cache, PRELOAD_DONE,
                   logVars, anchorVars, now, rulesetFile, cacheBy, verify, vo, gx, wr>>

(* guardian_chat, line 148: _set(k, res) *)
ChatSet(c) ==
    /\ calls[c].pc = "set"
    /\ cache' = CacheSet(_key(calls[c].text), calls[c].res)
    /\ cacheBy' = CacheBySet(_key(calls[c].text), calls[c].text, calls[c].rs)
    /\ calls' = [calls EXCEPT ![c] = [@ EXCEPT !.pc = "log"]]
    /\ UNCHANGED <<MODE, SEM_ENABLED, lat, latBy, bg, execQueue, PRELOAD_DONE,
                   semCalls, logVars, anchorVars, now, rulesVars, verify, vo, gx, wr>>

(* variant: only passing verdicts are written to the output log *)
ChatLog_PassedOnly(c) ==
    /\ calls[c].pc = "log"
    /\ IF calls[c].res.passed
       THEN /\ log' = Append(log, LogEntry(calls[c].text, calls[c].res))
            /\ logBy' = Append(logBy, <<c, "chat">>)
       ELSE UNCHANGED <<log, logBy>>
    /\ lat' = Append(lat, LatEntry(calls[c].dt_fast,
                                   IF calls[c].sem THEN 1 ELSE -1, FALSE))
    /\ latBy' = Append(latBy, c)
    /\ calls' = [calls EXCEPT ![c] = [@ EXCEPT !.pc = "done", !.ret = calls[c].res]]
    /\ UNCHANGED <<MODE, SEM_ENABLED, cache, bg, execQueue, PRELOAD_DONE,
                   semCalls, anchorVars, now, rulesVars, cacheBy, verify, vo, gx, wr>>

(* guardian_chat, lines 149-151: _log_output(text, res), _log_latency,
   return res *)
ChatLog(c) ==
    /\ calls[c].pc = "log"
    /\ log' = Append(log, LogEntry(calls[c].text, calls[c].res))
    /\ logBy' = Append(logBy, <<c, "chat">>)
    /\ lat' = Append(lat, LatEntry(calls[c].dt_fast,
                                   IF calls[c].sem THEN 1 ELSE -1, FALSE))
    /\ latBy' = Append(latBy, c)
    /\ calls' = [calls EXCEPT ![c] = [@ EXCEPT !.pc = "done", !.ret = calls[c].res]]
    /\ UNCHANGED <<MODE, SEM_ENABLED, cache, bg, execQueue, PRELOAD_DONE,
                   semCalls, anchorVars, now, rulesVars, cacheBy, verify, vo, gx, wr>>

(* _bg_heavy_check, lines 155-164: the semantic pass in the background
   thread (an exception of the matcher ends the thread) and, when it found
   a violation, _set(key, res) *)
BgCheck(c, up) ==
    /\ bg[c].pc = "check"
    /\ LET text == calls[c].text
           sem == validate_output(text, TRUE)
       IN  /\ semCalls' = IF InvokesMatcher(TRUE)
                          THEN semCalls \cup {<<c, "bg", text>>}
                          ELSE semCalls
           /\ IF InvokesMatcher(TRUE) /\ ~up
              THEN /\ bg' = [bg EXCEPT ![c] =
                                [@ EXCEPT !.pc = "died", !.rs = canonical_ruleset_sha256(load_ruleset)]]
                   /\ UNCHANGED <<cache, cacheBy>>
              ELSE IF HasViolation(sem)
              THEN LET res == BgMerge([passed |-> FALSE, violations |-> <<>>,
                                       notes |-> <<>>, score |-> 0], sem, 1)
                   IN  /\ bg' = [bg EXCEPT ![c] =
                                   [pc |-> "log", findings |-> sem, res |-> res,
                                    rs |-> canonical_ruleset_sha256(load_ruleset)]]
                       /\ cache' = CacheSet(_key(text), res)
                       /\ cacheBy' = CacheBySet(_key(text), text, canonical_ruleset_sha256(load_ruleset))
              ELSE /\ bg' = [bg EXCEPT ![c] =
                                [@ EXCEPT !.pc = "done", !.findings = sem,
                                          !.rs = canonical_ruleset_sha256(load_ruleset)]]
                   /\ UNCHANGED <<cache, cacheBy>>
    /\ LoadsRuleset
    /\ UNCHANGED <<MODE, SEM_ENABLED, lat, latBy, calls, execQueue,
                   PRELOAD_DONE, logVars, anchorVars, now, rulesetFile, verify, vo, gx, wr>>

(* variant: the correction rewrites the last line of the log when that line
   is the entry of the same text *)
BgLog_Edit(c) ==
    /\ bg[c].pc = "log"
    /\ LET e == LogEntry(calls[c].text, bg[c].res)
           n == Len(log)
       IN  IF n > 0 /\ log[n].text_sha256 = e.text_sha256
           THEN /\ log' = [log EXCEPT ![n] = e]
                /\ logBy' = [logBy EXCEPT ![n] = <<c, "bg">>]
           ELSE /\ log' = Append(log, e)
                /\ logBy' = Append(logBy, <<c, "bg">>)
    /\ bg' = [bg EXCEPT ![c] = [@ EXCEPT !.pc = "done"]]
    /\ UNCHANGED <<MODE, SEM_ENABLED, cache, lat, latBy, calls, execQueue,
                   PRELOAD_DONE, semCalls, anchorVars, now, rulesVars, cacheBy, verify, vo, gx, wr>>

(* _bg_heavy_check, line 165: _log_output(text, res) *)
BgLog(c) ==
    /\ bg[c].pc = "log"
    /\ log' = Append(log, LogEntry(calls[c].text, bg[c].res))
    /\ logBy' = Append(logBy, <<c, "bg">>)
    /\ bg' = [bg EXCEPT ![c] = [@ EXCEPT !.pc = "done"]]
    /\ UNCHANGED <<MODE, SEM_ENABLED, cache, lat, latBy, calls, execQueue,
                   PRELOAD_DONE, semCalls, anchorVars, now, rulesVars, cacheBy, verify, vo, gx, wr>>

(* the main thread ends while no guardian_chat call is in progress and the
   interpreter exits: the recheck threads are daemon threads (line 144,
   daemon=True), so the ones still running are abandoned *)
ProcessExit ==
    /\ \A c \in CallIds : calls[c].pc \in {"idle", "done", "raised"}
    /\ \E c \in CallIds : calls[c].pc # "idle"
    /\ calls' = [c \in CallIds |->
                   IF calls[c].pc = "idle"
                   THEN [calls[c] EXCEPT !.pc = "exited"] ELSE calls[c]]
    /\ bg' = [c \in CallIds |->
                IF bg[c].pc \in {"check", "log"}
                THEN [bg[c] EXCEPT !.pc = "killed"] ELSE bg[c]]
    /\ UNCHANGED <<MODE, SEM_ENABLED, cache, lat, latBy, execQueue,
                   PRELOAD_DONE, semCalls, logVars, anchorVars, now, rulesVars,
                   cacheBy, verify, vo, gx, wr>>

\* the warmup calls of the matcher made so far, numbered in order
WarmupCalls == {x \in semCalls : x[2] = "warmup"}

(* variant: the warmup does not look at _PRELOAD_DONE *)
WarmRun_Unguarded(up) ==
    /\ execQueue > 0
    /\ execQueue' = execQueue - 1
    /\ semCalls' = IF SEM_ENABLED
                   THEN semCalls \cup {<<Cardinality(WarmupCalls) + 1,
                                         "warmup", <<"warmup">>>>}
                   ELSE semCalls
    /\ PRELOAD_DONE' = (PRELOAD_DONE \/ ~SEM_ENABLED \/ up)
    /\ UNCHANGED <<MODE, SEM_ENABLED, cache, lat, latBy, calls, bg,
                   logVars, anchorVars, now, rulesVars, cacheBy, verify, vo, gx, wr>>

(* _warm_semantic, run by the single worker of _EXECUTOR *)
WarmRun(up) ==
    /\ execQueue > 0
    /\ execQueue' = execQueue - 1
    /\ IF PRELOAD_DONE
       THEN UNCHANGED <<PRELOAD_DONE, semCalls>>
       ELSE /\ semCalls' = IF SEM_ENABLED
                           THEN semCalls \cup {<<Cardinality(WarmupCalls) + 1,
                                                 "warmup", <<"warmup">>>>}
                           ELSE semCalls
            /\ PRELOAD_DONE' = (~SEM_ENABLED \/ up)
    /\ UNCHANGED <<MODE, SEM_ENABLED, cache, lat, latBy, calls, bg,
                   logVars, anchorVars, now, rulesVars, cacheBy, verify, vo, gx, wr>>

(* The ruleset file is rewritten, or CANDELA_RULESET_PATH is pointed at
   another file: the next stat() of load_ruleset sees a new mtime. *)
RulesetChange(rs) ==
    /\ rulesetFile.mtime < MaxEdits
    /\ rulesetFile' = [content |-> rs, mtime |-> rulesetFile.mtime + 1]
    /\ UNCHANGED <<runtimeVars, logVars, anchorVars, now,
                   _RULESET_CACHE, _RULESET_MTIME, cacheBy, verify, vo, gx, wr>>

(* The mode is overridden at module level between two invocations
   (rt.MODE = mode; rt.SEM_ENABLED = (mode != "regex_only")); the callers
   that do so may clear the cache as well. *)
ConfigSwitch(m, clear) ==
    /\ m # MODE
    /\ \A c \in CallIds : /\ calls[c].pc \in {"idle", "done", "raised"}
                          /\ bg[c].pc \in {"none", "done", "died"}
    /\ MODE' = m
    /\ SEM_ENABLED' = (m # "regex_only")
    /\ cache' = IF clear THEN <<>> ELSE cache
    /\ cacheBy' = IF clear THEN <<>> ELSE cacheBy
    /\ UNCHANGED <<lat, latBy, calls, bg, execQueue, PRELOAD_DONE, semCalls,
                   logVars, anchorVars, now, rulesVars, verify, vo, gx, wr>>

(* the wall clock advances *)
Tick ==
    /\ now < MaxTime
    /\ now' = now + 1
    /\ UNCHANGED <<runtimeVars, logVars, anchorVars, rulesVars, cacheBy, verify, vo, gx, wr>>

(* ----------------------------- anchoring ------------------------------ *)
\* _append_anchor_entry: skip a record already present; insert right after
\* the section marker when the file has one, else append at the end
_append_anchor_entry(existing, entry) ==
    IF \E i \in DOMAIN existing : existing[i] = entry THEN existing
    ELSE IF ledgerMarker THEN <<entry>> \o existing
    ELSE Append(existing, entry)

Leaves(lines) == [i \in DOMAIN lines |-> _leaf_hash(lines[i])]

(* variant: a dry run writes the offset it would reach to the state file *)
AnchorStart_DryRecords(dry) ==
    /\ anchor.pc = "idle"
    /\ dry \/ txCount < MaxTx
    /\ LET start == anchored_lines
           new_lines == SubSeq(log, start + 1, Len(log))
           root == _merkle_root(Leaves(new_lines))
           base == [IdleAnchor EXCEPT !.start = start, !.read_len = Len(log),
                                      !.pre_anchored = anchored_lines,
                                      !.pre_ledger = ledger]
       IN  anchor' =
             IF log = <<>> THEN [IdleAnchor EXCEPT !.outcome = "no_log"]
             ELSE IF new_lines = <<>> THEN [IdleAnchor EXCEPT !.outcome = "nothing_new"]
             ELSE IF dry
             THEN [IdleAnchor EXCEPT !.outcome = "dry_run", !.root = root,
                                     !.start = start, !.n = Len(new_lines)]
             ELSE [base EXCEPT !.pc = "send", !.n = Len(new_lines), !.root = root]
    /\ anchored_lines' = IF dry THEN Len(log) ELSE anchored_lines
    /\ UNCHANGED <<runtimeVars, logVars, ledger, ledgerMarker,
                   sinkPending, sinkAccepted, txCount, now, rulesVars, cacheBy, verify, vo, gx, wr>>

(* main, lines 96-119: read the state file and the log, take the lines after
   the offset, compute their root; stop there when there is no log, nothing
   new, or --dry-run (which prints the line range and the root) *)
AnchorStart(dry) ==
    /\ anchor.pc = "idle"
    /\ dry \/ txCount < MaxTx
    /\ LET start == anchored_lines
           new_lines == SubSeq(log, start + 1, Len(log))
           root == _merkle_root(Leaves(new_lines))
           base == [IdleAnchor EXCEPT !.start = start, !.read_len = Len(log),
                                      !.pre_anchored = anchored_lines,
                                      !.pre_ledger = ledger]
       IN  anchor' =
             IF log = <<>> THEN [IdleAnchor EXCEPT !.outcome = "no_log"]
             ELSE IF new_lines = <<>> THEN [IdleAnchor EXCEPT !.outcome = "nothing_new"]
             ELSE IF dry
             THEN [IdleAnchor EXCEPT !.outcome = "dry_run", !.root = root,
                                     !.start = start, !.n = Len(new_lines)]
             ELSE [base EXCEPT !.pc = "send", !.n = Len(new_lines), !.root = root]
    /\ UNCHANGED <<runtimeVars, logVars, anchored_lines, ledger, ledgerMarker,
                   sinkPending, sinkAccepted, txCount, now, rulesVars, cacheBy, verify, vo, gx, wr>>

(* main, lines 125-137 raising: nonce lookup, signing or sending fails *)
AnchorSendFail ==
    /\ anchor.pc = "send"
    /\ anchor' = [IdleAnchor EXCEPT !.outcome = "error"]
    /\ UNCHANGED <<runtimeVars, logVars, anchored_lines, ledger, ledgerMarker,
                   sinkPending, sinkAccepted, txCount, now, rulesVars, cacheBy, verify, vo, gx, wr>>

(* variant: the offset is advanced as soon as the transaction is sent *)
AnchorSendOk_Optimistic ==
    /\ anchor.pc = "send"
    /\ txCount' = txCount + 1
    /\ sinkPending' = sinkPending \cup
          {[tx |-> txCount + 1, root |-> anchor.root,
            first |-> anchor.start + 1, last |-> anchor.start + anchor.n]}
    /\ anchor' = [anchor EXCEPT !.pc = "wait", !.tx = txCount + 1]
    /\ anchored_lines' = anchor.start + anchor.n
    /\ UNCHANGED <<runtimeVars, logVars, ledger, ledgerMarker,
                   sinkAccepted, now, rulesVars, cacheBy, verify, vo, gx, wr>>

(* main, lines 125-139: the transaction carrying the root is sent *)
AnchorSendOk ==
    /\ anchor.pc = "send"
    /\ txCount' = txCount + 1
    /\ sinkPending' = sinkPending \cup
          {[tx |-> txCount + 1, root |-> anchor.root,
            first |-> anchor.start + 1, last |-> anchor.start + anchor.n]}
    /\ anchor' = [anchor EXCEPT !.pc = "wait", !.tx = txCount + 1]
    /\ UNCHANGED <<runtimeVars, logVars, anchored_lines, ledger, ledgerMarker,
                   sinkAccepted, now, rulesVars, cacheBy, verify, vo, gx, wr>>

(* the chain mines a transaction it was sent *)
SinkMine(t) ==
    /\ t \in sinkPending
    /\ sinkPending' = sinkPending \ {t}
    /\ sinkAccepted' = sinkAccepted \cup {t}
    /\ UNCHANGED <<runtimeVars, logVars, anchored_lines, ledger, ledgerMarker,
                   anchor, txCount, now, rulesVars, cacheBy, verify, vo, gx, wr>>

(* main, lines 141-142: wait_for_transaction_receipt returns the receipt *)
AnchorWaitOk ==
    /\ anchor.pc = "wait"
    /\ \E t \in sinkAccepted : t.tx = anchor.tx
    /\ anchor' = [anchor EXCEPT !.pc = "commit"]
    /\ UNCHANGED <<runtimeVars, logVars, anchored_lines, ledger, ledgerMarker,
                   sinkPending, sinkAccepted, txCount, now, rulesVars, cacheBy, verify, vo, gx, wr>>

(* variant: a failed wait still records the batch, the transaction having
   been sent *)
AnchorWaitFail_Records ==
    /\ anchor.pc = "wait"
    /\ ledger' = Append(ledger,
                    [first |-> anchor.start + 1, last |-> anchor.start + anchor.n,
                     root |-> anchor.root, tx |-> anchor.tx])
    /\ anchor' = [IdleAnchor EXCEPT !.outcome = "error"]
    /\ UNCHANGED <<runtimeVars, logVars, anchored_lines, ledgerMarker,
                   sinkPending, sinkAccepted, txCount, now, rulesVars, cacheBy, verify, vo, gx, wr>>

(* main, lines 141-150: the wait times out or the RPC call raises; the
   transaction stays wherever it is on the chain *)
AnchorWaitFail ==
    /\ anchor.pc = "wait"
    /\ anchor' = [IdleAnchor EXCEPT !.outcome = "error"]
    /\ UNCHANGED <<runtimeVars, logVars, anchored_lines, ledger, ledgerMarker,
                   sinkPending, sinkAccepted, txCount, now, rulesVars, cacheBy, verify, vo, gx, wr>>

(* variant: the offset is set to the length of the log at commit time *)
AnchorCommit_LiveLength ==
    /\ anchor.pc = "commit"
    /\ ledger' = _append_anchor_entry(ledger,
                    [first |-> anchor.start + 1, last |-> anchor.start + anchor.n,
                     root |-> anchor.root, tx |-> anchor.tx])
    /\ anchored_lines' = Len(log)
    /\ anchor' = [IdleAnchor EXCEPT !.outcome = "anchored"]
    /\ UNCHANGED <<runtimeVars, logVars, ledgerMarker, sinkPending, sinkAccepted,
                   txCount, now, rulesVars, cacheBy, verify, vo, gx, wr>>

(* main, lines 152-161: record the batch in the ledger, advance the offset *)
AnchorCommit ==
    /\ anchor.pc = "commit"
    /\ ledger' = _append_anchor_entry(ledger,
                    [first |-> anchor.start + 1, last |-> anchor.start + anchor.n,
                     root |-> anchor.root, tx |-> anchor.tx])
    /\ anchored_lines' = anchor.start + anchor.n
    /\ anchor' = [IdleAnchor EXCEPT !.outcome = "anchored"]
    /\ UNCHANGED <<runtimeVars, logVars, ledgerMarker, sinkPending, sinkAccepted,
                   txCount, now, rulesVars, cacheBy, verify, vo, gx, wr>>

(* ------------------------- validate_output --------------------------- *)
(* validate_output is called with an explicit ruleset *)
ValidateCall ==
    /\ vo.pc = "input"
    /\ LET r == ValidateResult(vo.rs, vo.text, vo.include_semantic, vo.matcher)
       IN  vo' = [vo EXCEPT !.pc = IF r.raised THEN "raised" ELSE "returned",
                            !.raised = r.raised,
                            !.findings = r.findings,
                            !.matcher_calls = r.matcher_calls]
    /\ UNCHANGED <<runtimeVars, logVars, anchorVars, now, rulesVars, cacheBy,
                   verify, gx, wr>>

(* the same call is made once more *)
ValidateAgain ==
    /\ vo.pc = "returned"
    /\ LET r == ValidateResult(vo.rs, vo.text, vo.include_semantic, vo.matcher)
       IN  vo' = [vo EXCEPT !.pc = "repeated", !.again = r.findings]
    /\ UNCHANGED <<runtimeVars, logVars, anchorVars, now, rulesVars, cacheBy,
                   verify, gx, wr>>

(* ------------------------------ Luhn ---------------------------------- *)
(* _luhn_ok is called on a string of digits *)
LuhnCall ==
    /\ vo.pc = "digits"
    /\ vo' = [vo EXCEPT !.pc = "summed",
                        !.luhn = IF _luhn_ok(vo.digits) THEN "ok" ELSE "bad"]
    /\ UNCHANGED <<runtimeVars, logVars, anchorVars, now, rulesVars, cacheBy,
                   verify, gx, wr>>

(* -------------------------- canonical hash ---------------------------- *)
(* one of the places computes the hash of the ruleset document *)
HashAt(place) ==
    /\ vo.pc = "doc"
    /\ vo.hashes[place] = ""
    /\ vo' = [vo EXCEPT !.hashes[place] = CanonicalHashAt(place, vo.doc)]
    /\ UNCHANGED <<runtimeVars, logVars, anchorVars, now, rulesVars, cacheBy,
                   verify, gx, wr>>

(* ------------------------- guardian_extended ------------------------- *)
RECURSIVE ChecksPatterns(_, _)
ChecksPatterns(checks, j) ==
    IF j > Len(checks) THEN <<>>
    ELSE (IF checks[j].kind = "regex_forbid" THEN checks[j].patterns ELSE <<>>)
         \o ChecksPatterns(checks, j + 1)

\* the names of the regex_forbid patterns of the BLOCK directives, in the
\* order the ruleset declares them
RECURSIVE BlockPatterns(_, _)
BlockPatterns(ds, i) ==
    IF i > Len(ds) THEN <<>>
    ELSE (IF ds[i].tier = "BLOCK" /\ ds[i].has_checks
          THEN ChecksPatterns(ds[i].checks, 1) ELSE <<>>)
         \o BlockPatterns(ds, i + 1)

\* out[name] = ...: a dict keeps a name at the position of its first insertion
RECURSIVE DictKeys(_, _)
DictKeys(names, k) ==
    IF k > Len(names) THEN <<>>
    ELSE (IF \E m \in 1..(k - 1) : names[m] = names[k]
          THEN <<>> ELSE <<names[k]>>)
         \o DictKeys(names, k + 1)

\* the default set of the except branch: eth_private_key_hex
FallbackPatterns == <<"0xkey">>

_compile_ruleset_patterns(file) ==
    IF file = Unreadable
    THEN [fallback |-> TRUE, patterns |-> FallbackPatterns]
    ELSE [fallback |-> FALSE,
          patterns |-> DictKeys(BlockPatterns(file.directives, 1), 1)]

\* variant: the name of the last matching pattern is returned
regex_guard_LastMatch(patterns, text) ==
    LET hits == SelectSeq(patterns, LAMBDA p : re_search(p, text))
    IN  IF hits = <<>> THEN [ok |-> TRUE, name |-> ""]
        ELSE [ok |-> FALSE, name |-> hits[Len(hits)]]

regex_guard(patterns, text) ==
    LET hits == SelectSeq(patterns, LAMBDA p : re_search(p, text))
    IN  IF hits = <<>> THEN [ok |-> TRUE, name |-> ""]
        ELSE [ok |-> FALSE, name |-> hits[1]]

\* guardian_prototype.guardian_session: the verdicts it returns
DelegateVerdict(outcome) ==
    CASE outcome = "mismatch" ->
            [passed |-> FALSE, violations |-> <<"directive_hash_mismatch">>,
             notes |-> <<"anchored">>, score |-> 0]
      [] outcome = "placeholder" ->
            [passed |-> FALSE, violations |-> <<"regex_block">>,
             notes |-> <<>>, score |-> -50]
      [] OTHER ->
            [passed |-> TRUE, violations |-> <<>>, notes |-> <<>>, score |-> 100]

\* guardian_prototype._bundle_hash of the directives file
_bundle_hash(file) ==
    sha256(ToString([i \in DOMAIN file.directives |-> file.directives[i].id]))

\* the directives file whose hash is the KNOWN_HASH of guardian_session
KnownFile ==
    [name |-> "file",
     directives |-> SelectSeq(RULESET.directives, LAMBDA d : d.id = 1)]

KNOWN_HASH == _bundle_hash(KnownFile)

\* _anchor_on_chain with the placeholder key of the module: nothing is sent,
\* the transaction id returned is "0xDEV_SKIP"
DEV_SKIP == 0

\* guardian_session: which of its return statements is reached
guardian_session(file, text) ==
    IF _bundle_hash(file) # KNOWN_HASH THEN "mismatch"
    ELSE IF "bomb" \in Range(text) THEN "placeholder"
    ELSE "pass"

\* _log_anchor: the line of the hash is appended to docs/ANCHORS.md
_log_anchor(existing, h, tx) ==
    Append(existing, [first |-> 0, last |-> 0, root |-> h, tx |-> tx])

(* import of guardian_extended: SAFETY_REGEX_PATTERNS is compiled *)
ExtImport ==
    /\ gx.pc = "import"
    /\ LET c == _compile_ruleset_patterns(gx.file)
       IN  gx' = [gx EXCEPT !.pc = "ready", !.patterns = c.patterns,
                            !.fallback = c.fallback]
    /\ UNCHANGED <<runtimeVars, logVars, anchorVars, now, rulesVars, cacheBy,
                   verify, vo, wr>>

(* guardian(text): the regex screen, then the delegated guardian_session,
   which reads the directives file (and raises when it cannot), and on a
   hash other than KNOWN_HASH calls _anchor_on_chain and _log_anchor *)
ExtGuardian(text) ==
    /\ gx.pc = "ready"
    /\ LET g == regex_guard(gx.patterns, text)
           raises == g.ok /\ gx.file = Unreadable
           outcome == guardian_session(gx.file, text)
       IN  /\ gx' = [gx EXCEPT
                       !.pc = IF raises THEN "raised" ELSE "returned",
                       !.text = text, !.ok = g.ok,
                       !.info = g.name,
                       !.delegated = g.ok,
                       !.verdict = IF ~g.ok
                                   THEN [passed |-> FALSE,
                                         violations |-> <<"regex_block">>,
                                         notes |-> <<g.name>>, score |-> 0]
                                   ELSE IF raises THEN NoVerdict
                                   ELSE DelegateVerdict(outcome)]
           /\ ledger' = IF g.ok /\ ~raises /\ outcome = "mismatch"
                        THEN _log_anchor(ledger, _bundle_hash(gx.file), DEV_SKIP)
                        ELSE ledger
    /\ UNCHANGED <<runtimeVars, logVars, anchored_lines, ledgerMarker,
                   sinkPending, sinkAccepted, anchor, txCount, now, rulesVars,
                   cacheBy, verify, vo, wr>>

(* load_ruleset() on the same file: json.loads(path.read_text()) *)
ExtLoadRuleset ==
    /\ gx.pc # "idle"
    /\ gx.loaded = "pending"
    /\ gx' = [gx EXCEPT !.loaded = IF gx.file = Unreadable
                                   THEN "load_error" ELSE "returned"]
    /\ UNCHANGED <<runtimeVars, logVars, anchorVars, now, rulesVars, cacheBy,
                   verify, vo, wr>>

(* import of guardian_runtime on the same file: DIRECTIVES_HASH *)
ExtRuntimeImport ==
    /\ gx.pc # "idle"
    /\ gx.runtime = "pending"
    /\ gx' = [gx EXCEPT !.runtime = IF gx.file = Unreadable
                                    THEN "load_error" ELSE "imported"]
    /\ UNCHANGED <<runtimeVars, logVars, anchorVars, now, rulesVars, cacheBy,
                   verify, vo, wr>>

(* ------------------------- output log file ---------------------------- *)
(* _log_output, lines 67-87: the entry is built and the file is opened for
   appending, each writer with a file object of its own *)
LogOpen(w) ==
    /\ wr.pc[w] = "idle"
    /\ wr' = [wr EXCEPT !.pc[w] = "open"]
    /\ UNCHANGED <<runtimeVars, logVars, anchorVars, now, rulesVars, cacheBy,
                   verify, vo, gx>>

(* _log_output, line 88: f.write(line) and the close of the file hand the
   line to the operating system, which appends all of it, or a first part
   of it and the rest in a second write *)
LogWrite(w, whole) ==
    /\ wr.pc[w] = "open"
    /\ wr' = [wr EXCEPT
                !.file = Append(@, [entry |-> w,
                                    part |-> IF whole THEN "whole" ELSE "head"]),
                !.pc[w] = IF whole THEN "closed" ELSE "rest"]
    /\ UNCHANGED <<runtimeVars, logVars, anchorVars, now, rulesVars, cacheBy,
                   verify, vo, gx>>

LogWriteRest(w) ==
    /\ wr.pc[w] = "rest"
    /\ wr' = [wr EXCEPT !.file = Append(@, [entry |-> w, part |-> "tail"]),
                        !.pc[w] = "closed"]
    /\ UNCHANGED <<runtimeVars, logVars, anchorVars, now, rulesVars, cacheBy,
                   verify, vo, gx>>

(* ------------------------------ verify -------------------------------- *)
(* merkle_root_and_proof(leaves, index) is called *)
MerkleProve ==
    /\ verify.pc = "input"
    /\ LET r == merkle_root_and_proof(verify.leaves, verify.index)
       IN  verify' = [verify EXCEPT !.pc = IF r.raised THEN "raised" ELSE "proved",
                                    !.raised = r.raised,
                                    !.root = r.root,
                                    !.proof = r.proof]
    /\ UNCHANGED <<runtimeVars, logVars, anchorVars, now, rulesVars, cacheBy, vo, gx, wr>>

(* anchor_outputs._merkle_root(hashes) is called: it returns a byte string
   for every list, the empty one for the empty list *)
MerkleRootOf ==
    /\ verify.pc = "input"
    /\ verify' = [verify EXCEPT !.pc = "rooted", !.raised = FALSE,
                                !.root = _merkle_root(verify.leaves)]
    /\ UNCHANGED <<runtimeVars, logVars, anchorVars, now, rulesVars, cacheBy, vo, gx, wr>>

(* the root is recomputed from the leaf and the proof *)
MerkleRecompute ==
    /\ verify.pc = "proved"
    /\ verify' = [verify EXCEPT
                    !.pc = "checked",
                    !.recomputed = _verify_proof(verify.leaves[verify.index + 1],
                                                 verify.proof, verify.index, 1)]
    /\ UNCHANGED <<runtimeVars, logVars, anchorVars, now, rulesVars, cacheBy, vo, gx, wr>>

(* the same leaves are given to anchor_outputs._merkle_root and to the
   Merkle function of run_guardian *)
MerkleCompare ==
    /\ verify.pc = "checked"
    /\ verify' = [verify EXCEPT
                    !.pc = "compared",
                    !.anchor_root = _merkle_root(verify.leaves),
                    !.cli_root = compute_merkle_root_for_lines(verify.leaves)]
    /\ UNCHANGED <<runtimeVars, logVars, anchorVars, now, rulesVars, cacheBy, vo, gx, wr>>

(* verify_output.main --line n: read the whole log, build the tree over the
   hashes of all its lines and print the root and the proof of line n *)
VerifyMain(n) ==
    /\ verify' =
          IF log = <<>> THEN [IdleVerify EXCEPT !.pc = "exit"]
          ELSE IF n - 1 < 0 \/ n - 1 >= Len(log)
          THEN [IdleVerify EXCEPT !.pc = "exit"]
          ELSE LET leaves == [i \in DOMAIN log |-> leaf_hash(log[i])]
                   r == merkle_root_and_proof(leaves, n - 1)
               IN  [IdleVerify EXCEPT !.pc = "printed", !.index = n - 1,
                                      !.root = r.root, !.proof = r.proof]
    /\ UNCHANGED <<runtimeVars, logVars, anchorVars, now, rulesVars, cacheBy, vo, gx, wr>>

(* --------------------------- specification ---------------------------- *)
Next ==
    \/ \E c \in CallIds, text \in Texts, dt \in DtSamples, up \in BOOLEAN :
          ChatStart(c, text, dt, up)
    \/ \E c \in CallIds : ChatSet(c)
    \/ \E c \in CallIds : ChatLog(c)
    \/ \E c \in CallIds, up \in BOOLEAN : BgCheck(c, up)
    \/ \E c \in CallIds : BgLog(c)
    \/ Tick

\* the worker of _EXECUTOR takes the next queued warmup
WorkerNext == \E up \in BOOLEAN : WarmRun(up)

AnchorNext ==
    \/ \E dry \in BOOLEAN : AnchorStart(dry)
    \/ AnchorSendFail
    \/ AnchorSendOk
    \/ \E t \in sinkPending : SinkMine(t)
    \/ AnchorWaitOk
    \/ AnchorWaitFail
    \/ AnchorCommit

\* the runtime: guardian_chat invocations, background rechecks, the clock
RuntimeInit == Init /\ ledgerMarker = FALSE

Spec == RuntimeInit /\ [][Next]_vars

\* the anchoring script beside a sync_light runtime that appends to the log:
\* first-pass entries of a failing and of a passing text, and corrections
AnchorTexts == {T_key, T_harm}

AnchorRuntimeNext ==
    \/ \E c \in CallIds, text \in AnchorTexts : ChatStart(c, text, 100, TRUE)
    \/ \E c \in CallIds : ChatSet(c)
    \/ \E c \in CallIds : ChatLog(c)
    \/ \E c \in CallIds, up \in BOOLEAN : BgCheck(c, up)
    \/ \E c \in CallIds : BgLog(c)

AnchorInit == Init /\ MODE = "sync_light" /\ SEM_ENABLED = TRUE

SpecAnchor == AnchorInit /\ [][AnchorRuntimeNext \/ AnchorNext]_vars

\* the runtime while the ruleset file and the mode change under it
RulesTexts == {T_key, T_harm}

RulesNext ==
    \/ \E c \in CallIds, text \in RulesTexts : ChatStart(c, text, 100, TRUE)
    \/ \E c \in CallIds : ChatSet(c)
    \/ \E c \in CallIds : ChatLog(c)
    \/ \E c \in CallIds : BgCheck(c, TRUE)
    \/ \E c \in CallIds : BgLog(c)
    \/ \E rs \in Rulesets \ {rulesetFile.content} : RulesetChange(rs)
    \/ \E m \in Modes, clear \in BOOLEAN : ConfigSwitch(m, clear)

SpecRules == RuntimeInit /\ [][RulesNext]_vars

\* the verify script beside log appends and anchoring passes that succeed
VerifyNext ==
    \/ \E c \in CallIds, text \in AnchorTexts : ChatStart(c, text, 100, TRUE)
    \/ \E c \in CallIds : ChatSet(c)
    \/ \E c \in CallIds : ChatLog(c)
    \/ \E c \in CallIds : BgCheck(c, TRUE)
    \/ \E c \in CallIds : BgLog(c)
    \/ AnchorStart(FALSE)
    \/ AnchorSendOk
    \/ \E t \in sinkPending : SinkMine(t)
    \/ AnchorWaitOk
    \/ AnchorCommit
    \/ \E n \in 1..(Len(log) + 1) : VerifyMain(n)

VerifyInit == AnchorInit /\ ledgerMarker = FALSE

SpecVerify == VerifyInit /\ [][VerifyNext]_vars

\* the Merkle proof functions on every tree of up to MaxLeaves leaves, the
\* empty one included, and every index into it
MerkleLeaves == {leaf_hash("a"), leaf_hash("b")}

MerkleTrees == UNION {[1..n -> MerkleLeaves] : n \in 0..MaxLeaves}

MerkleInputs ==
    {[IdleVerify EXCEPT !.pc = "input", !.leaves = x[1], !.index = x[2]] :
        x \in {y \in MerkleTrees \X (0..MaxLeaves) :
                  y[2] < Len(y[1]) \/ (y[1] = <<>> /\ y[2] = 0)}}

MerkleInit ==
    /\ ImportState
    /\ MODE = "strict"
    /\ SEM_ENABLED = TRUE
    /\ ledgerMarker = FALSE
    /\ verify \in MerkleInputs
    /\ vo = IdleVo
    /\ gx = IdleGx
    /\ wr = IdleWr

MerkleNext == MerkleProve \/ MerkleRootOf \/ MerkleRecompute \/ MerkleCompare

SpecMerkle == MerkleInit /\ [][MerkleNext]_vars

\* validate_output on every ruleset of up to MaxDirectives directives of the
\* pool, every text, with and without the semantic checks and the matcher
ValidateInputs ==
    {[IdleVo EXCEPT !.pc = "input", !.rs = x[1], !.text = x[2],
                    !.include_semantic = x[3], !.matcher = x[4]] :
        x \in ValidateRulesets \X ValidateTexts \X BOOLEAN \X {"none", "up"}}

ValidateInit ==
    /\ ImportState
    /\ MODE = "strict"
    /\ SEM_ENABLED = TRUE
    /\ ledgerMarker = FALSE
    /\ verify = IdleVerify
    /\ vo \in ValidateInputs
    /\ gx = IdleGx
    /\ wr = IdleWr

ValidateNext == ValidateCall \/ ValidateAgain

SpecValidate == ValidateInit /\ [][ValidateNext]_vars

\* guardian_extended imported on a ruleset file of up to MaxDirectives
\* directives, or on a file that cannot be read, and then called
T_keys == <<"0xkey", "pem">>

T_bomb == <<"bomb", "conf">>

ExtTexts == {T_clean, T_key, T_keys, T_warn, T_bomb}

ExtPool ==
    {d \in Range(RULESET.directives) : d.id \in {1, 5, 10, 12}} \cup
    {Directive(17, "Keys", "BLOCK", TRUE,
               <<Chk("regex_forbid", <<"pem">>, <<>>, 0)>>),
     Directive(18, "Links", "WARN", TRUE,
               <<Chk("regex_forbid", <<"0xkey">>, <<>>, 0)>>)}

ExtFiles ==
    {Unreadable} \cup
    {[name |-> "file", directives |-> ds] :
        ds \in UNION {[1..n -> ExtPool] : n \in 0..MaxDirectives}}

ExtInit ==
    /\ ImportState
    /\ MODE = "strict"
    /\ SEM_ENABLED = TRUE
    /\ ledgerMarker = FALSE
    /\ verify = IdleVerify
    /\ vo = IdleVo
    /\ gx \in {[IdleGx EXCEPT !.pc = "import", !.file = f] : f \in ExtFiles}
    /\ wr = IdleWr

ExtNext ==
    \/ ExtImport
    \/ \E text \in ExtTexts : ExtGuardian(text)
    \/ ExtLoadRuleset
    \/ ExtRuntimeImport

SpecExt == ExtInit /\ [][ExtNext]_vars

\* the calling thread and the rechecks append to the output log
LogInit == RuntimeInit /\ MODE = "sync_light" /\ SEM_ENABLED = TRUE

LogNext ==
    \E w \in Writers :
        \/ LogOpen(w)
        \/ \E whole \in BOOLEAN : LogWrite(w, whole)
        \/ LogWriteRest(w)

SpecLog == LogInit /\ [][LogNext]_vars

\* the runtime in sync_light mode in a process that may exit; the threads
\* that are started are scheduled fairly until then
LiveTexts == {T_clean, T_harm}

LiveInit == RuntimeInit /\ MODE = "sync_light" /\ SEM_ENABLED = TRUE

LiveNext ==
    \/ \E c \in CallIds, text \in LiveTexts, dt \in DtSamples, up \in BOOLEAN :
          ChatStart(c, text, dt, up)
    \/ \E c \in CallIds : ChatSet(c)
    \/ \E c \in CallIds : ChatLog(c)
    \/ \E c \in CallIds, up \in BOOLEAN : BgCheck(c, up)
    \/ \E c \in CallIds : BgLog(c)
    \/ ProcessExit

LiveFairness ==
    \A c \in CallIds :
        /\ WF_vars(ChatSet(c))
        /\ WF_vars(ChatLog(c))
        /\ WF_vars(\E up \in BOOLEAN : BgCheck(c, up))
        /\ WF_vars(BgLog(c))

SpecLive == LiveInit /\ [][LiveNext]_vars /\ LiveFairness

\* the runtime in every mode with the worker of _EXECUTOR
PreloadTexts == {T_clean, T_harm}

PreloadNext ==
    \/ \E c \in CallIds, text \in PreloadTexts, up \in BOOLEAN :
          ChatStart(c, text, 100, up)
    \/ \E c \in CallIds : ChatSet(c)
    \/ \E c \in CallIds : ChatLog(c)
    \/ \E c \in CallIds : BgCheck(c, TRUE)
    \/ \E c \in CallIds : BgLog(c)
    \/ WorkerNext

SpecPreload == RuntimeInit /\ [][PreloadNext]_vars

\* _luhn_ok on the digit strings of 13 to MaxDigits digits that are zero
\* except at one position and at the check digit, and on three card numbers
MinDigits == 13

LuhnLengths == MinDigits..MaxDigits

TwoDigitStrings ==
    {[i \in 1..x[1] |-> IF i = x[2] THEN x[3]
                         ELSE IF i = x[1] THEN x[4] ELSE 0] :
        x \in {y \in LuhnLengths \X (1..MaxDigits) \X (0..9) \X (0..9) :
                  y[2] < y[1]}}

CardNumbers ==
    {<<4,1,1,1, 1,1,1,1, 1,1,1,1, 1,1,1,1>>,
     <<4,1,1,1, 1,1,1,1, 1,1,1,1, 1,1,2,1>>,
     <<3,7,8,2, 8,2,2,4, 6,3,1,0, 0,0,5>>}

LuhnInputs == TwoDigitStrings \cup CardNumbers

LuhnInit ==
    /\ ImportState
    /\ MODE = "strict"
    /\ SEM_ENABLED = TRUE
    /\ ledgerMarker = FALSE
    /\ verify = IdleVerify
    /\ vo \in {[IdleVo EXCEPT !.pc = "digits", !.digits = d] : d \in LuhnInputs}
    /\ gx = IdleGx
    /\ wr = IdleWr

LuhnNext == LuhnCall

SpecLuhn == LuhnInit /\ [][LuhnNext]_vars

\* every place hashes a ruleset document of up to MaxStrings strings
HashDocs == UNION {[1..n -> DocStrings] : n \in 0..MaxStrings}

HashInit ==
    /\ ImportState
    /\ MODE = "strict"
    /\ SEM_ENABLED = TRUE
    /\ ledgerMarker = FALSE
    /\ verify = IdleVerify
    /\ vo \in {[IdleVo EXCEPT !.pc = "doc", !.doc = d] : d \in HashDocs}
    /\ gx = IdleGx
    /\ wr = IdleWr

HashNext == \E place \in HashPlaces : HashAt(place)

SpecHash == HashInit /\ [][HashNext]_vars

\* the runtime in regex_only mode with the worker of _EXECUTOR running the
\* queued warmups
WarmInit == Init /\ MODE = "regex_only" /\ ledgerMarker = FALSE

WarmNext ==
    \/ \E c \in CallIds, text \in Texts, dt \in DtSamples :
          ChatStart(c, text, dt, TRUE)
    \/ \E c \in CallIds : ChatSet(c)
    \/ \E c \in CallIds : ChatLog(c)
    \/ WorkerNext
    \/ Tick

SpecWarm == WarmInit /\ [][WarmNext]_vars

(* ----------------------------- properties ----------------------------- *)
IsPrefix(s, t) == Len(s) <= Len(t) /\ SubSeq(t, 1, Len(s)) = s

LogCount(c) == Cardinality({i \in DOMAIN logBy : logBy[i] = <<c, "chat">>})

LatCount(c) == Cardinality({i \in DOMAIN latBy : latBy[i] = c})

\* the background thread of call c has written its correction to the cache
BgWrote(c) == bg[c].pc = "log" \/ \E i \in DOMAIN logBy : logBy[i] = <<c, "bg">>

\* call c computed a verdict of its own (it missed the cache and did not raise)
Computed(c) == calls[c].pc \in {"set", "log", "done"} /\ ~calls[c].hit

\* the matcher blocks the text for a semantic_forbid check of a BLOCK directive
SemBlocks(text) ==
    \E i \in DOMAIN RULESET.directives :
       LET d == RULESET.directives[i]
       IN  /\ d.tier = "BLOCK"
           /\ d.has_checks
           /\ \E j \in DOMAIN d.checks :
                 /\ d.checks[j].kind = "semantic_forbid"
                 /\ MaxSim(text, d.checks[j].phrases) >= DefaultCheckThreshold

(* C1: the output log only grows by appending: every step leaves the old
   log a prefix of the new one, and the step in which a background thread
   writes its correction adds exactly one line, holding that correction,
   after all existing lines. *)
C1_LogAppendOnly ==
    [][/\ IsPrefix(log, log')
       /\ \A c \in CallIds :
             (bg[c].pc = "log" /\ bg'[c].pc = "done") =>
                /\ Len(log') = Len(log) + 1
                /\ log'[Len(log')].verdict = bg[c].res]_vars

C1_Witness ==
    /\ \E i \in DOMAIN logBy : i > 1 /\ logBy[i][2] = "bg"
    /\ anchored_lines > 0
    /\ Len(log) > anchored_lines

(* C2: a guardian_chat call that missed the cache and returned has appended
   exactly one line to the output log and exactly one latency record; a call
   that hit the cache has appended no line to the output log. *)
C2_OneEntryPerMiss ==
    \A c \in CallIds :
       calls[c].pc = "done" =>
          IF calls[c].hit
          THEN LogCount(c) = 0
          ELSE LogCount(c) = 1 /\ LatCount(c) = 1

C2_Witness ==
    \E c, d \in CallIds :
       /\ calls[c].pc = "done" /\ ~calls[c].hit /\ ~calls[c].res.passed
       /\ calls[d].pc = "done" /\ calls[d].hit

(* C3: every verdict computed by guardian_chat and every correction written
   by the background recheck has passed = TRUE exactly when none of the
   findings evaluated for it is a violation; every logged verdict is the
   verdict of the call or recheck that logged it, and every cached or
   returned verdict is one of those verdicts for the same text. *)
C3_PassedIffNoViolation ==
    /\ \A c \in CallIds :
          /\ Computed(c) =>
                (calls[c].res.passed <=> ~HasViolation(calls[c].findings))
          /\ BgWrote(c) =>
                (bg[c].res.passed <=> ~HasViolation(bg[c].findings))
          /\ calls[c].pc = "done" =>
                \E p \in CallIds :
                   /\ calls[p].text = calls[c].text
                   /\ \/ Computed(p) /\ calls[c].ret = calls[p].res
                      \/ BgWrote(p) /\ calls[c].ret = bg[p].res
    /\ \A i \in DOMAIN log :
          log[i].verdict = IF logBy[i][2] = "chat" THEN calls[logBy[i][1]].res
                           ELSE bg[logBy[i][1]].res
    /\ \A k \in DOMAIN cache :
          \E p \in CallIds :
             /\ _key(calls[p].text) = k
             /\ \/ Computed(p) /\ cache[k].res = calls[p].res
                \/ BgWrote(p) /\ cache[k].res = bg[p].res

C3_Witness ==
    /\ \E c \in CallIds :
          Computed(c) /\ calls[c].pc = "done" /\ calls[c].sem /\ ~calls[c].res.passed
    /\ \E c \in CallIds :
          calls[c].pc = "done" /\ calls[c].res.passed /\ Len(calls[c].findings) > 1

C3_WitnessBg ==
    \E c \in CallIds : bg[c].pc = "done" /\ BgWrote(c) /\ calls[c].pc = "done"

(* C4: when a live anchor pass ends at a failing step of submission or
   confirmation, the pass reports the error outcome, and the offset and the
   ledger are then what they were when the pass started. *)
C4_FailedPassKeepsState ==
    [][(anchor.pc \in {"send", "wait"} /\ anchor'.pc = "idle") =>
          /\ anchor'.outcome = "error"
          /\ anchored_lines' = anchor.pre_anchored
          /\ ledger' = anchor.pre_ledger]_vars

C4_Witness ==
    /\ anchor.outcome = "error"
    /\ sinkPending \cup sinkAccepted # {}
    /\ Len(ledger) = 1
    /\ Len(log) > anchored_lines

\* the log lines a root or ledger record stands for
Covers(r, i) == r.first <= i /\ i <= r.last

(* C5: no log line is covered by two roots the sink accepted, nor by two
   ledger records, and every line up to the offset is covered by exactly
   one ledger record. *)
C5_NoDoubleAnchor ==
    \A i \in 1..Len(log) :
       /\ Cardinality({t.root : t \in {u \in sinkAccepted : Covers(u, i)}}) <= 1
       /\ Cardinality({j \in DOMAIN ledger : Covers(ledger[j], i)}) <= 1
       /\ i <= anchored_lines =>
             Cardinality({j \in DOMAIN ledger : Covers(ledger[j], i)}) = 1

(* C6: the step that completes a confirmed live pass, begun when k > 0 lines
   were unanchored, sets the offset to its old value plus k and adds one
   ledger record, for the lines old+1..old+k, whose root is the Merkle root
   of those lines and whose transaction the sink accepted; lines appended
   since the pass read the log are not included. *)
C6_ConfirmedPassAdvancesByK ==
    [][(anchor.pc = "commit" /\ anchor'.pc = "idle") =>
          LET old == anchor.pre_anchored
              k == anchor.read_len - old
              rec == [first |-> old + 1, last |-> old + k,
                      root |-> _merkle_root(Leaves(SubSeq(log, old + 1, old + k))),
                      tx |-> anchor.tx]
          IN  /\ k > 0
              /\ old = anchored_lines
              /\ anchored_lines' = old + k
              /\ Len(ledger') = Len(ledger) + 1
              /\ \E j \in DOMAIN ledger' :
                    /\ ledger'[j] = rec
                    /\ \A m \in DOMAIN ledger : ledger[m] # rec
              /\ \A m \in DOMAIN ledger : \E j \in DOMAIN ledger' : ledger'[j] = ledger[m]
              /\ \E t \in sinkAccepted : t.tx = anchor.tx /\ t.root = rec.root]_vars

C6_Witness ==
    /\ anchor.outcome = "anchored"
    /\ anchored_lines < Len(log)
    /\ \E j \in DOMAIN ledger :
          ledger[j].last > ledger[j].first /\ ledger[j].last = anchored_lines

(* C7: the offset never decreases, and it changes only in the step that
   follows the receipt of a transaction the sink accepted. *)
C7_OffsetMonotonic ==
    [][/\ anchored_lines' >= anchored_lines
       /\ anchored_lines' # anchored_lines =>
             /\ anchor.pc = "commit"
             /\ \E t \in sinkAccepted : t.tx = anchor.tx]_vars

C7_Witness ==
    /\ Len(ledger) = 2
    /\ anchored_lines = Len(log)
    /\ anchor.outcome = "anchored"

(* C8: in sync_light mode, once a call and its background recheck have both
   finished and the recheck found a violation, the cache entry of the key
   holds the failing verdict (no other invocation used the key). *)
C8_CorrectionWins ==
    \A c \in CallIds :
       (/\ MODE = "sync_light"
        /\ calls[c].pc = "done" /\ ~calls[c].hit
        /\ bg[c].pc = "done" /\ BgWrote(c)
        /\ \A d \in CallIds \ {c} : calls[d].text # calls[c].text)
       => /\ _key(calls[c].text) \in DOMAIN cache
          /\ ~cache[_key(calls[c].text)].res.passed

(* C9: in strict mode with the semantic detector enabled, a call whose fast
   path passed has invoked the matcher on its text before it computes its
   verdict, and for a text the matcher blocks under a BLOCK directive the
   verdict computed, cached, logged and returned is passed = FALSE. *)
C9_StrictBlocks ==
    (MODE = "strict" /\ SEM_ENABLED) =>
       /\ \A c \in CallIds :
             /\ (Computed(c) /\ ~HasViolation(calls[c].fast_findings)) =>
                   /\ <<c, "strict", calls[c].text>> \in semCalls
                   /\ SemBlocks(calls[c].text) => ~calls[c].res.passed
             /\ (calls[c].pc = "done" /\ SemBlocks(calls[c].text)) =>
                   ~calls[c].ret.passed
       /\ \A t \in Texts :
             SemBlocks(t) =>
                /\ _key(t) \in DOMAIN cache => ~cache[_key(t)].res.passed
                /\ \A i \in DOMAIN log :
                      log[i].text_sha256 = _sha(t) => ~log[i].verdict.passed

C9_Witness ==
    /\ MODE = "strict" /\ SEM_ENABLED
    /\ \E c, d \in CallIds :
          /\ calls[c].pc = "done" /\ ~calls[c].hit /\ SemBlocks(calls[c].text)
          /\ calls[d].pc = "done" /\ calls[d].hit /\ calls[d].text = calls[c].text

(* C10: in every mode, a call whose fast path produced a violation makes no
   matcher evaluation of its text and dispatches no background recheck. *)
C10_FastFailSkipsSemantic ==
    \A c \in CallIds :
       (calls[c].pc # "idle" /\ ~calls[c].hit /\ HasViolation(calls[c].fast_findings)) =>
          /\ \A e \in semCalls : e[1] # c
          /\ bg[c].pc = "none"
          /\ ~calls[c].sem

C10_Witness ==
    /\ SEM_ENABLED
    /\ MODE = "sync_light"
    /\ \E c \in CallIds :
          /\ calls[c].pc = "done" /\ ~calls[c].hit
          /\ HasViolation(calls[c].fast_findings)
    /\ \E c \in CallIds : bg[c].pc # "none"


(* C11: in regex_only mode no step triggered by a guardian_chat call (fast
   path, warmup task, background work) invokes the semantic matcher,
   whatever the detector's enabled setting. *)
C11_RegexOnlyNoMatcher == MODE = "regex_only" => semCalls = {}

(* C12: a guardian_chat call whose key has an unexpired cache entry returns
   exactly the stored verdict, runs no rule evaluation (no findings, no
   matcher call, no background recheck), appends nothing to the output log,
   leaves the cache unchanged and writes one latency record with fast-path
   latency 0 and cached = true. *)
C12_CacheHitFrame ==
    [][\A c \in CallIds :
          (/\ calls[c].pc = "idle"
           /\ calls'[c].pc # "idle"
           /\ CacheHit(_key(calls'[c].text)))
          => /\ calls'[c].pc = "done"
             /\ calls'[c].ret = cache[_key(calls'[c].text)].res
             /\ calls'[c].fast_findings = <<>>
             /\ calls'[c].findings = <<>>
             /\ semCalls' = semCalls
             /\ bg' = bg
             /\ log' = log
             /\ cache' = cache
             /\ lat' = Append(lat, [mode |-> MODE, cached |-> TRUE,
                                    dt_fast_ms |-> 0, dt_sem_ms |-> -1])
             /\ latBy' = Append(latBy, c)]_vars

\* a call answered from the cache has returned a stored failing verdict
C12_Witness ==
    \E c \in CallIds :
       /\ calls[c].pc = "done"
       /\ calls[c].hit
       /\ ~calls[c].ret.passed
       /\ lat # <<>>
       /\ lat[Len(lat)].cached

(* C13: a cache entry is never returned at or after its expires_at time; a
   guardian_chat call that finds its key expired re-runs the rule engine
   and, when it returns, has installed an entry expiring one TTL after the
   write and appended a new LogEntry carrying the recomputed verdict. *)
C13_ExpiredRecomputes ==
    [][\A c \in CallIds :
          LET k == _key(calls'[c].text)
          IN  /\ (calls[c].pc = "idle" /\ calls'[c].pc # "idle")
                 => /\ calls'[c].hit
                         => (k \in DOMAIN cache /\ cache[k].expires_at > now)
                    /\ (k \in DOMAIN cache /\ cache[k].expires_at <= now)
                         => /\ ~calls'[c].hit
                            /\ calls'[c].pc \in {"set", "raised"}
                            /\ calls'[c].fast_findings =
                                  validate_output(calls'[c].text, FALSE)
                            /\ lat' = lat
              /\ (calls[c].pc = "set" /\ calls'[c].pc # "set")
                 => /\ calls'[c].pc = "log"
                    /\ cache'[k] = [expires_at |-> now + CACHE_TTL,
                                    res |-> calls[c].res]
              /\ (calls[c].pc = "log" /\ calls'[c].pc # "log")
                 => /\ calls'[c].pc = "done"
                    /\ calls'[c].ret = calls[c].res
                    /\ Len(log') = Len(log) + 1
                    /\ log'[Len(log')].text_sha256 = _sha(calls[c].text)
                    /\ log'[Len(log')].verdict = calls[c].res]_vars

\* the second of two calls on the same text came exactly at the expiry of
\* the first one's entry, recomputed, logged and installed a fresh entry
C13_Witness ==
    /\ now = CACHE_TTL
    /\ calls[1].pc = "done" /\ ~calls[1].hit
    /\ calls[2].pc = "done" /\ ~calls[2].hit
    /\ calls[1].text = calls[2].text
    /\ Len(log) >= 2
    /\ logBy[Len(logBy)] = <<2, "chat">>
    /\ _key(calls[2].text) \in DOMAIN cache
    /\ cache[_key(calls[2].text)].expires_at = now + CACHE_TTL

(* C14: a cache hit never returns a verdict that was computed for a
   different text, ruleset content, mode, semantic-enabled flag or threshold
   than those in force for the current call, after any sequence of mode
   switches and ruleset file changes within one process. *)
C14_HitMatchesInputs ==
    [][\A c \in CallIds :
          (calls[c].pc = "idle" /\ calls'[c].pc # "idle" /\ calls'[c].hit)
          => LET from == cacheBy[_key(calls'[c].text)]
             IN  /\ from.text = calls'[c].text
                 /\ from.ruleset = canonical_ruleset_sha256(rulesetFile.content)
                 /\ from.mode = MODE
                 /\ from.sem = SEM_ENABLED
                 /\ from.threshold = THRESHOLD]_vars

(* C15: in every LogEntry the recorded directive_hash is the canonical hash
   of the ruleset content that was evaluated to produce the entry's verdict,
   also after the ruleset file was changed and reloaded or the path override
   changed. *)
C15_LoggedHashIsEvaluated ==
    \A i \in DOMAIN log :
       LET c == logBy[i][1]
           rs == IF logBy[i][2] = "chat" THEN calls[c].rs ELSE bg[c].rs
       IN  log[i].directive_hash = rs

(* C16: for every non-empty sequence of leaves and every valid index i, the
   root recomputed from leaf i and the proof of merkle_root_and_proof
   (hash(current + sibling) on an even running index, hash(sibling +
   current) on an odd one, halving the index at each level) is the root
   merkle_root_and_proof returned, levels of odd size included. *)
C16_ProofRoundTrip ==
    verify.pc = "checked"
    => /\ verify.root = merkle_root_and_proof(verify.leaves, verify.index).root
       /\ verify.recomputed = verify.root

\* the proof of the last of five leaves, paired with itself at two levels,
\* has been recomputed
C16_Witness ==
    /\ verify.pc = "checked"
    /\ Len(verify.leaves) = 5
    /\ verify.index = 4
    /\ verify.proof[1] = verify.leaves[5]
    /\ verify.recomputed = verify.root

(* C17: after any sequence of log appends and successful anchor passes, the
   root the verify operation prints for an anchored line N is the root of
   the ledger record whose line range contains N. *)
C17_VerifyRootIsAnchoredRoot ==
    [][(verify' # verify /\ verify'.pc = "printed")
       => \A j \in DOMAIN ledger :
             (ledger[j].first <= verify'.index + 1
              /\ verify'.index + 1 <= ledger[j].last)
             => verify'.root = ledger[j].root]_vars

(* C18: every Merkle-root operation given zero lines reports an explicit
   absent result: it hands back no root value at all, neither an empty nor
   a zero hash.  (The pass that finds no unanchored line returns before it
   computes a root: AnchorStart, outcome "nothing_new".) *)
C18_ZeroLinesNoRoot ==
    (verify.leaves = <<>> /\ verify.pc \in {"raised", "proved", "rooted"})
    => verify.raised

(* C19: an anchor pass run in dry-run mode submits nothing to the sink and
   leaves anchored_lines and the ledger unchanged, and the root it reports
   is the root that a live pass started from the same log and state
   computes and submits. *)
C19_DryRunFrame ==
    [][/\ (anchor' # anchor /\ anchor'.outcome = "dry_run")
          => /\ sinkPending' = sinkPending
             /\ sinkAccepted' = sinkAccepted
             /\ txCount' = txCount
             /\ anchored_lines' = anchored_lines
             /\ ledger' = ledger
       /\ (/\ anchor.outcome = "dry_run"
           /\ anchor'.pc = "send"
           /\ anchor'.start = anchor.start
           /\ anchor'.n = anchor.n)
          => anchor'.root = anchor.root
       /\ (anchor.pc = "send" /\ anchor'.pc = "wait")
          => \E t \in sinkPending' \ sinkPending : t.root = anchor.root]_vars

\* a dry run over a second batch has reported its root
C19_Witness ==
    /\ anchor.outcome = "dry_run"
    /\ anchor.root # ""
    /\ anchor.start > 0
    /\ anchor.start = anchored_lines
    /\ anchor.n > 0
    /\ Len(ledger) > 0
    /\ sinkPending = {}

\* the directive of the loaded ruleset with this id
DirectiveById(id) ==
    CHOOSE d \in Range(load_ruleset.directives) : d.id = id

\* some check fires on the text (the matcher included) and every check that
\* fires belongs to a WARN-tier directive
WarnOnlyText(text) ==
    LET fs == validate_output(text, TRUE)
        fired == {i \in DOMAIN fs : DirectiveById(fs[i].directive_id).has_checks}
    IN  /\ fired # {}
        /\ \A i \in fired : DirectiveById(fs[i].directive_id).tier = "WARN"

(* C20: for a text on which only WARN-tier directives fire, every finding
   produced is advisory and guardian_chat returns passed = true with an
   empty violations list, in every mode. *)
C20_WarnNeverBlocks ==
    \A c \in CallIds :
       calls[c].pc = "done"
       => \/ /\ \A i \in DOMAIN calls[c].findings :
                   calls[c].findings[i].level = "advisory"
             /\ calls[c].ret.passed
             /\ calls[c].ret.violations = <<>>
          \/ ~WarnOnlyText(calls[c].text)

\* a strict-mode call on the text with an email and no confidence tag ran
\* both passes and returned
C20_Witness ==
    \E c \in CallIds :
       /\ calls[c].pc = "done"
       /\ ~calls[c].hit
       /\ calls[c].text = T_warn
       /\ WarnOnlyText(calls[c].text)
       /\ MODE = "strict"
       /\ calls[c].sem
       /\ \E i \in DOMAIN calls[c].findings : calls[c].findings[i].directive_id = 10
       /\ \E i \in DOMAIN calls[c].findings : calls[c].findings[i].directive_id = 11
       /\ calls[c].ret.passed

(* ------------------- validate_output called directly ------------------ *)
Returned == vo.pc \in {"returned", "repeated"}

TierOf(rs, did) ==
    LET i == CHOOSE j \in DOMAIN rs.directives : rs.directives[j].id = did
    IN  rs.directives[i].tier

\* the messages of the findings that report a problem of the ruleset itself
SchemaMessages ==
    {"Directive has no machine-checkable checks.", "Unknown check kind."}

\* C21 (as stated): every finding validate_output returns has level
\* "violation" if and only if its directive's tier is BLOCK.
C21_LevelIffBlock ==
    Returned =>
        \A i \in DOMAIN vo.findings :
            (vo.findings[i].level = "violation")
                <=> (TierOf(vo.rs, vo.findings[i].directive_id) = "BLOCK")

\* C21 (amended): a finding has level "violation" if and only if its
\* directive's tier is BLOCK and it comes from a check of a known kind; the
\* findings for missing checks and for unknown check kinds are advisory
\* whatever the tier.
C21_LevelFollowsTierOfKnownChecks ==
    Returned =>
        \A i \in DOMAIN vo.findings :
            (vo.findings[i].level = "violation")
                <=> /\ TierOf(vo.rs, vo.findings[i].directive_id) = "BLOCK"
                    /\ vo.findings[i].message \notin SchemaMessages

\* a call returned a violation of a BLOCK directive next to an advisory
\* finding for a BLOCK directive without checks
C21_Witness ==
    /\ Returned
    /\ \E i, j \in DOMAIN vo.findings :
        /\ vo.findings[i].level = "violation"
        /\ vo.findings[j].level = "advisory"
        /\ vo.findings[j].message = "Directive has no machine-checkable checks."
        /\ TierOf(vo.rs, vo.findings[j].directive_id) = "BLOCK"

\* the digits of a word that is a run of digits
DigitRun(w) ==
    CASE w = "4111111111111111" -> <<4,1,1,1, 1,1,1,1, 1,1,1,1, 1,1,1,1>>
      [] w = "4111111111111121" -> <<4,1,1,1, 1,1,1,1, 1,1,1,1, 1,1,2,1>>
      [] w = "123456789" -> <<1,2,3,4,5,6,7,8,9>>
      [] OTHER -> <<>>

\* the text contains a run of 13 to 19 digits that passes the Luhn checksum
HasLuhnRun(text) ==
    \E w \in Range(text) :
        /\ 13 <= Len(DigitRun(w))
        /\ Len(DigitRun(w)) <= 19
        /\ _luhn_ok(DigitRun(w))

FindingsOf(findings, did) ==
    SelectSeq(findings, LAMBDA f : f.directive_id = did)

Occurrences(rs, did) ==
    Cardinality({i \in DOMAIN rs.directives : rs.directives[i].id = did})

\* C26: a luhn_card_forbid check yields exactly one Finding for its directive
\* if the text contains a Luhn-valid run of 13 to 19 digits, and none if the
\* text contains no such run.
C26_LuhnCardFinding ==
    (Returned /\ Occurrences(vo.rs, 2) = 1) =>
        Len(FindingsOf(vo.findings, 2)) = IF HasLuhnRun(vo.text) THEN 1 ELSE 0

\* C24: for every ruleset and every text, validate_output called with
\* include_semantic = true and no semantic matcher ends in a raised error and
\* never returns a list of findings.
C24_NoMatcherAlwaysRaises ==
    (vo.pc # "input" /\ vo.include_semantic /\ vo.matcher = "none") =>
        (vo.raised /\ ~Returned)

\* C25: every directive whose checks are absent or an empty list gets
\* exactly one advisory Finding from validate_output.
C25_NoChecksOneAdvisory ==
    Returned =>
        \A i \in DOMAIN vo.rs.directives :
            LET d == vo.rs.directives[i]
                fs == FindingsOf(vo.findings, d.id)
            IN  ((~d.has_checks \/ d.checks = <<>>)
                    /\ Occurrences(vo.rs, d.id) = 1)
                => (Len(fs) = 1 /\ fs[1].level = "advisory")

SemanticMessage == "Semantic similarity matched a prohibited intent."

BgEndedByException(c) == bg[c].pc = "died"

\* the step in which the matcher raises in a background recheck writes
\* neither the cache nor the output log
BgFailureFrame ==
    [][\A c \in CallIds :
          (bg[c].pc = "check" /\ bg'[c].pc = "died")
              => (cache' = cache /\ log' = log)]_vars

\* a recheck was dispatched and completed after an earlier one had failed
BgAfterFailure ==
    /\ BgEndedByException(1)
    /\ bg[2].pc = "done"
    /\ <<2, "bg", calls[2].text>> \in semCalls

\* C22: an exception of the semantic matcher in a sync_light background
\* recheck is caught inside the background task: no background task is ended
\* by the exception.
C22_BgExceptionCaught ==
    \A c \in CallIds : ~BgEndedByException(c)

\* the notes of a verdict carry the budget note
HasBudgetNote(res) == "background_pending" \in Range(res.notes)

\* C23: every cache-miss invocation of guardian_chat, in each mode and whether
\* the fast path passed or failed, whose fast-path latency exceeds the budget
\* returns a verdict with a budget note.
C23_OverBudgetIsNoted ==
    \A c \in CallIds :
        (calls[c].pc = "done" /\ ~calls[c].hit /\ calls[c].dt_fast > BUDGET_MS)
            => HasBudgetNote(calls[c].ret)

(* --------------------------- guardian_extended ------------------------ *)
Least(S) == CHOOSE i \in S : \A j \in S : i <= j

C29_LoadErrorPropagates ==
    gx.file = Unreadable =>
        /\ gx.pc \in {"import", "failed"}
        /\ gx.loaded \in {"pending", "load_error"}
        /\ gx.runtime \in {"pending", "load_error"}

\* load_ruleset and the import of guardian_runtime end in the load error
LoadersPropagate ==
    gx.file = Unreadable =>
        /\ gx.loaded \in {"pending", "load_error"}
        /\ gx.runtime \in {"pending", "load_error"}

(* ---------------------------- output log file ------------------------- *)
\* C30: when the calling thread and background rechecks append to the output
\* log concurrently, every line of the log is exactly one complete LogEntry:
\* what a writer appended first of an entry is followed at once by the rest
\* of that entry, in every interleaving of the writers.
C30_LogLinesWhole ==
    \A i \in DOMAIN wr.file :
        wr.file[i].part = "head" =>
            \/ i = Len(wr.file)
            \/ wr.file[i + 1] = [entry |-> wr.file[i].entry, part |-> "tail"]

(* ------------------------- background scheduling ---------------------- *)
\* the background rechecks whose thread has been started and has not ended
RunningRechecks == {c \in CallIds : bg[c].pc \in {"check", "log"}}

\* C31: at any time at most one background task that uses the semantic
\* matcher is executing, however many guardian_chat calls have been made.
C31_OneBackgroundTask ==
    Cardinality(RunningRechecks) <= 1

\* C32: every background recheck dispatched by a sync_light invocation
\* eventually runs to completion, and when the semantic check finds a
\* violation a correction LogEntry is eventually appended, also when the
\* caller's main flow finishes before the recheck does.
C32_RecheckCompletes ==
    \A c \in CallIds :
        /\ (bg[c].pc = "check") ~> (bg[c].pc = "done")
        /\ (bg[c].pc = "check" /\ SemBlocks(calls[c].text))
              ~> (\E i \in DOMAIN logBy : logBy[i] = <<c, "bg">>)

\* C33: once the warmup call of the semantic matcher has succeeded no later
\* warmup task calls the matcher again, and the step of guardian_chat that
\* runs the fast path only queues its warmup task: it does not run it or
\* wait for it.
C33_WarmupOnce ==
    [][/\ PRELOAD_DONE => (PRELOAD_DONE' /\ WarmupCalls' = WarmupCalls)
       /\ \A c \in CallIds :
            (calls[c].pc = "idle" /\ calls'[c].pc # "idle")
                => (execQueue' = execQueue + 1 /\ WarmupCalls' = WarmupCalls
                    /\ PRELOAD_DONE' = PRELOAD_DONE)]_vars

\* two invocations have run their fast path, both warmup tasks have run and
\* the matcher was called by the first one only
C33_Witness ==
    /\ SEM_ENABLED
    /\ PRELOAD_DONE
    /\ execQueue = 0
    /\ calls[2].pc = "done"
    /\ WarmupCalls = {<<1, "warmup", <<"warmup">>>>}

(* C34: for every non-empty sequence of leaves and every valid index, the
   root of the proof builder (verify_output.merkle_root_and_proof) equals the
   root of the anchoring code (anchor_outputs._merkle_root) and the root of
   the Merkle function of run_guardian. *)
C34_RootsAgree ==
    (verify.pc = "compared" /\ verify.leaves # <<>>)
        => (verify.root = verify.anchor_root /\ verify.root = verify.cli_root)

\* the three roots of a tree of five leaves, whose levels of five and three
\* nodes are odd, have been computed for a proof of its third leaf
C34_Witness ==
    /\ verify.pc = "compared"
    /\ Len(verify.leaves) = 5
    /\ verify.index = 2
    /\ verify.leaves[5] # verify.leaves[4]
    /\ verify.cli_root = verify.root

(* ---------------------------- canonical hash -------------------------- *)
\* C35: for every ruleset document, including ones with non-ASCII text, every
\* place that computes the canonical hash of the ruleset produces the same
\* hash value.
C35_SameHashEverywhere ==
    \A p, q \in HashPlaces :
        (vo.hashes[p] # "" /\ vo.hashes[q] # "") => vo.hashes[p] = vo.hashes[q]

(* -------------------------------- Luhn -------------------------------- *)
\* the standard mod-10 checksum: counted from the rightmost digit, every
\* second digit is doubled and 9 is subtracted from a doubled value above 9
RECURSIVE StandardLuhnSum(_, _)
StandardLuhnSum(digits, k) ==
    IF k > Len(digits) THEN 0
    ELSE LET n == digits[Len(digits) - k + 1]
             m == IF k % 2 = 0
                  THEN (IF 2 * n > 9 THEN 2 * n - 9 ELSE 2 * n)
                  ELSE n
         IN  m + StandardLuhnSum(digits, k + 1)

\* C36: for every digit string of length 13 to 19, _luhn_ok returns true if
\* and only if the standard mod-10 Luhn checksum holds, for even and odd
\* lengths.
C36_LuhnIsStandard ==
    vo.pc = "summed" =>
        ((vo.luhn = "ok") <=> (StandardLuhnSum(vo.digits, 1) % 10 = 0))

\* _luhn_ok accepted a string of odd length in which a doubled digit above 4
\* is balanced by the check digit
C36_Witness ==
    /\ vo.pc = "summed"
    /\ vo.luhn = "ok"
    /\ Len(vo.digits) = 13
    /\ \E i \in 1..12 : vo.digits[i] > 4 /\ (13 - i) % 2 = 1

(* ------------------------- order of the log entries ------------------- *)
\* C37: in sync_light mode a correction LogEntry of a background recheck
\* appears in the output log after the original LogEntry of the same
\* invocation, in every interleaving of the two threads.
C37_CorrectionAfterOriginal ==
    \A i \in DOMAIN logBy :
        logBy[i][2] = "bg" =>
            \E j \in 1..(i - 1) : logBy[j] = <<logBy[i][1], "chat">>

(* --------------------------- ledger of hashes ------------------------- *)
\* C38: a ruleset hash is in the anchoring ledger only if it was submitted to
\* the external anchor sink and confirmed: every record names a transaction
\* the sink accepted, and no text-evaluation operation adds a record.
C38_LedgerOnlyConfirmed ==
    \A i \in DOMAIN ledger : ledger[i].tx \in sinkAccepted

(* ------------------------------ verdicts ------------------------------ *)
\* the verdicts the runtime has produced: computed by a call, returned by a
\* call, built by a background recheck
ProducedVerdicts ==
    {calls[c].res : c \in {d \in CallIds : Computed(d)}}
    \cup {calls[c].ret : c \in {d \in CallIds : calls[d].pc = "done"}}
    \cup {bg[c].res : c \in {d \in CallIds : BgWrote(d)}}

\* C39: every verdict the runtime produces with passed = false has score 0
\* and every verdict with passed = true has score 100.
C39_ScoreFollowsPassed ==
    \A v \in ProducedVerdicts : v.score = IF v.passed THEN 100 ELSE 0

NoDuplicates(seq) ==
    \A i, j \in DOMAIN seq : seq[i] = seq[j] => i = j

\* C40: in strict mode the notes of the merged verdict hold exactly one note
\* per distinct finding of the text: a finding of the fast path is not noted
\* a second time by the semantic pass.
C40_StrictNotesOnce ==
    \A c \in CallIds :
        (MODE = "strict" /\ calls[c].pc = "done" /\ ~calls[c].hit /\ calls[c].sem)
            => NoDuplicates(calls[c].ret.notes)
====
